---- MODULE Spec2Model ----
(***************************************************************************)
(* DFRAS AI query service: the query-understanding and root-cause /        *)
(* recommendation pipeline (enhanced_ai_engine.py), the analyzer wrapper   *)
(* with its fallback and the two analysis endpoints (main.py).             *)
(*                                                                         *)
(* Texts are modelled by the operations the code applies to them: a query  *)
(* is a sequence of lower-case words (joined by single blanks), a data     *)
(* value is a string with tables for strip(), split("'") and the substring *)
(* tests, a composed text (an f-string) is the sequence of its fragments,  *)
(* a rational number (percentage, confidence) is a pair <<num, den>>.      *)
(***************************************************************************)
EXTENDS Integers, Sequences, FiniteSets, TLC

\* ------------------------------------------------------------------ bounds
MaxQueryLen == 2
MaxRows == 3

\* ------------------------------------------------------------ basic values
NA == "<NA>"

Raised == [raised |-> TRUE]

Ok(v) == [raised |-> FALSE, value |-> v]

Range(s) == {s[i] : i \in 1..Len(s)}

RECURSIVE SeqsUpTo(_, _)
SeqsUpTo(S, n) ==
  IF n = 0 THEN {<<>>}
  ELSE LET shorter == SeqsUpTo(S, n - 1)
       IN  shorter \cup {Append(s, x) : s \in {t \in shorter : Len(t) = n - 1}, x \in S}

RECURSIVE Concat(_)
Concat(ss) == IF ss = <<>> THEN <<>> ELSE Head(ss) \o Concat(Tail(ss))

\* a rational <<num, den>> lies in [0,1]
InUnitInterval(r) == r[2] > 0 /\ 0 <= r[1] /\ r[1] <= r[2]

RatEq(a, b) == a[1] * b[2] = b[1] * a[2]

\* f"{x:.1f}" of a rational: the nearest number of tenths
Format1f(r) == (20 * r[1] + r[2]) \div (2 * r[2])

\* ------------------------------------------------- text tables (str methods)
\* v.strip()
strip(v) ==
  CASE v = " "     -> ""
    [] v = " Pune" -> "Pune"
    [] OTHER       -> v

\* description.split("'")[1] of a description f"'{v}' ..." : v up to its first apostrophe
split_quote(v) ==
  CASE v = "Driver's error"   -> "Driver"
    [] v = "Driver's absence" -> "Driver"
    [] OTHER                  -> v

\* the substring triggers of the recommendation catalog that a text fragment contains
TriggersIn(frag) ==
  CASE frag = "Address not found"      -> {"Address"}
    [] frag = "Address incomplete"     -> {"Address"}
    [] frag = "Wrong Address"          -> {"Address"}
    [] frag = "Inaccurate Address Data & Lack of Geo-Validation" -> {"Address"}
    [] frag = "Customer not available" -> {"Customer not available"}
    [] frag = "Weather delay"          -> {"Weather delay"}
    [] frag = "Traffic congestion"     -> {"Traffic congestion"}
    [] frag = "Systemic Operational Inefficiencies" -> {"Systemic Operational Inefficiencies"}
    [] OTHER                           -> {}

\* `trigger in cause` for a cause text given as its fragments
Contains(cause, trigger) == \E i \in 1..Len(cause) : trigger \in TriggersIn(cause[i])

\* ------------------------------------------------------ tables (lists of rows)
\* a row is a function from column names to values; a table is a sequence of rows

\* pd.DataFrame(rows).columns
Columns(rows) == UNION {DOMAIN rows[i] : i \in 1..Len(rows)}

Cell(row, col) == IF col \in DOMAIN row THEN row[col] ELSE NA

\* df[col] as a sequence
Column(rows, col) == [i \in 1..Len(rows) |-> Cell(rows[i], col)]

\* Series.dropna()
dropna(vals) == SelectSeq(vals, LAMBDA v : v # NA)

CountOf(vals, v) == Cardinality({i \in 1..Len(vals) : vals[i] = v})

\* the distinct values of a sequence in order of first appearance
unique(vals) ==
  LET firsts == {i \in 1..Len(vals) : \A j \in 1..(i - 1) : vals[j] # vals[i]}
      nth(k) == CHOOSE i \in firsts : Cardinality({j \in firsts : j < i}) = k - 1
  IN  [k \in 1..Cardinality(firsts) |-> vals[nth(k)]]

\* stable insertion of a [value, count] pair into a sequence sorted by count descending
RECURSIVE InsertByCount(_, _)
InsertByCount(sorted, p) ==
  IF sorted = <<>> THEN <<p>>
  ELSE IF Head(sorted).count >= p.count
       THEN <<Head(sorted)>> \o InsertByCount(Tail(sorted), p)
       ELSE <<p>> \o sorted

RECURSIVE SortByCount(_)
SortByCount(pairs) ==
  IF pairs = <<>> THEN <<>>
  ELSE InsertByCount(SortByCount(SubSeq(pairs, 1, Len(pairs) - 1)), pairs[Len(pairs)])

\* the distinct values of a sequence, each with the number of its occurrences
CountPairs(vals, distinct) ==
  [i \in 1..Len(distinct) |-> [value |-> distinct[i], count |-> CountOf(vals, distinct[i])]]

CountDistinct(vals) == CountPairs(vals, unique(vals))

\* Series.value_counts(): non-null values with their counts, most frequent first
value_counts(vals) == SortByCount(CountDistinct(dropna(vals)))

\* .head(n)
head(s, n) == SubSeq(s, 1, IF Len(s) < n THEN Len(s) ELSE n)


\* dict.get(key) of a working set whose values are lists: [] when the key is absent
Get(relevant_data, key) == IF key \in DOMAIN relevant_data THEN relevant_data[key] ELSE <<>>

\* ------------------------------------------------------------- Pattern Miner
\* percentage == (count / len(df)) * 100, kept exact
Percentage(count, total) == <<100 * count, total>>

Pattern(type, tmpl, value, count, total, severity) ==
  [type |-> type, tmpl |-> tmpl, value |-> value, frequency |-> count,
   percentage |-> Percentage(count, total), severity |-> severity]

\* a variant of TotalRows: the rows of every table of the working set together
TotalRowsUnion(relevant_data, table) ==
  Len(Get(relevant_data, "orders")) + Len(Get(relevant_data, "external_factors"))
  + Len(Get(relevant_data, "fleet_logs"))

\* the denominator the miner divides by for a table: len(DataFrame(rows))
TotalRows(relevant_data, table) == Len(Get(relevant_data, table))

\* the "severity" expression of the block that mines column col
Severity(col, v, c) ==
  CASE col \in {"failure_reason", "gps_delay_notes"} -> IF c > 10 THEN "high" ELSE "medium"
    [] col = "city" -> "medium"
    [] col = "status" -> IF v = "Failed" /\ c > 10 THEN "high" ELSE "medium"
    [] col = "weather_condition" -> IF v \in {"Rain", "Fog"} /\ c > 5 THEN "high" ELSE "medium"
    [] col = "traffic_condition" -> IF v \in {"Heavy", "Severe"} /\ c > 5 THEN "high" ELSE "medium"
    [] col \in {"delivery_city", "delivery_state"} -> IF c > 50 THEN "high" ELSE "medium"

\* one Pattern per kept [value, count] pair of a column; total is len(df)
PatternsOf(kept, total, type, tmpl, col) ==
  [i \in 1..Len(kept) |->
     Pattern(type, tmpl, kept[i].value, kept[i].count, total,
             Severity(col, kept[i].value, kept[i].count))]

\* .head(n), or every value when the block has no head (n = 0)
Top(counts, n) == IF n = 0 THEN counts ELSE head(counts, n)

\* the `pd.notna(v) and v.strip()` test, made after head(n)
Kept(top, skip_blank) ==
  IF skip_blank THEN SelectSeq(top, LAMBDA p : strip(p.value) # "") ELSE top

\* one (table, column) block of _analyze_patterns: value_counts().head(n), one Pattern
\* per kept value
ColumnPatterns(relevant_data, table, col, n, type, tmpl, skip_blank) ==
  IF Get(relevant_data, table) = <<>> \/ col \notin Columns(Get(relevant_data, table)) THEN <<>>
  ELSE PatternsOf(Kept(Top(value_counts(Column(Get(relevant_data, table), col)), n), skip_blank),
                  TotalRows(relevant_data, table), type, tmpl, col)

StripAll(vals) == [i \in 1..Len(vals) |-> strip(vals[i])]

\* the delivery_city / delivery_state blocks: dropna().astype(str).str.strip() first,
\* then value_counts().head(5) and the `if city` test
StrippedPatterns(relevant_data, col) ==
  IF Get(relevant_data, "orders") = <<>> \/ col \notin Columns(Get(relevant_data, "orders")) THEN <<>>
  ELSE PatternsOf(SelectSeq(head(value_counts(StripAll(dropna(Column(Get(relevant_data, "orders"), col)))), 5),
                            LAMBDA p : p.value # ""),
                  TotalRows(relevant_data, "orders"), "geographic_pattern", "High volume in", col)

_analyze_patterns(relevant_data) ==
  ColumnPatterns(relevant_data, "orders", "failure_reason", 5, "failure_pattern", "appears in", TRUE)
  \o ColumnPatterns(relevant_data, "orders", "city", 5, "geographic_pattern", "Most deliveries to", FALSE)
  \o ColumnPatterns(relevant_data, "orders", "status", 0, "status_pattern", "status in", FALSE)
  \o ColumnPatterns(relevant_data, "external_factors", "weather_condition", 3, "weather_correlation",
                 "weather conditions in", TRUE)
  \o ColumnPatterns(relevant_data, "external_factors", "traffic_condition", 3, "traffic_correlation",
                 "traffic conditions in", TRUE)
  \o ColumnPatterns(relevant_data, "fleet_logs", "gps_delay_notes", 5, "delay_pattern", "causes", TRUE)
  \o StrippedPatterns(relevant_data, "delivery_city")
  \o StrippedPatterns(relevant_data, "delivery_state")

\* the table a pattern type is mined from
TableOf(type) ==
  CASE type \in {"failure_pattern", "geographic_pattern", "status_pattern"} -> "orders"
    [] type \in {"weather_correlation", "traffic_correlation"}              -> "external_factors"
    [] type = "delay_pattern"                                               -> "fleet_logs"


\* ------------------------------------------------------------- Causal Mapper
\* BUSINESS_INR_RATE default
inr_rate == 83

\* `.empty` of relevant_data.get(key, pd.DataFrame()): the tables of a working set are
\* lists, and a list has no attribute `empty` (AttributeError); only the default
\* DataFrame() of an absent key answers, and it is empty
empty(relevant_data, key) == IF key \in DOMAIN relevant_data THEN Raised ELSE Ok(TRUE)

RootCause(cause, confidence, impact, evidence, factors, cost, csat, loss) ==
  [cause |-> cause, confidence |-> confidence, impact |-> impact, evidence |-> evidence,
   contributing_factors |-> factors,
   business_impact |-> <<cost * inr_rate, csat, loss>>]

\* the evidence text of a rule-based cause: its template and f"{percentage:.1f}"
Evidence(tmpl, pattern) == <<tmpl, Format1f(pattern.percentage)>>

\* confidence, customer_satisfaction_impact and operational_efficiency_loss in hundredths
_get_failure_rca(failure_reason, pattern, relevant_data) ==
  IF failure_reason \in {"Address not found", "Customer not available"}
     /\ empty(relevant_data, "orders").raised
  THEN Raised
  ELSE Ok(
    CASE failure_reason = "Address not found" ->
           RootCause(<<"Inaccurate Address Data & Lack of Geo-Validation">>, 85, "high",
                     Evidence("Address validation failures account for", pattern), 5, 25, -30, 15)
      [] failure_reason = "Customer not available" ->
           RootCause(<<"Ineffective Customer Communication & Delivery Window Management">>, 80, "medium",
                     Evidence("Customer unavailability causes", pattern), 5, 15, -20, 10)
      [] failure_reason = "Weather delay" ->
           RootCause(<<"Inadequate Weather Contingency Planning & Route Optimization">>, 90, "high",
                     Evidence("Weather-related delays affect", pattern), 5, 30, -25, 20)
      [] OTHER ->
           RootCause(<<"Systemic Operational Issue: ", failure_reason>>, 70, "medium",
                     Evidence("This failure reason accounts for", pattern), 5, 20, -20, 12))

_analyze_failure_root_cause(pattern, relevant_data) ==
  _get_failure_rca(split_quote(pattern.value), pattern, relevant_data)

_analyze_weather_root_cause(pattern, relevant_data) ==
  IF empty(relevant_data, "external_factors").raised
  THEN Raised
  ELSE Ok(RootCause(<<"Weather Impact: ", split_quote(pattern.value), " Causing Delivery Disruptions">>,
                    88, "high", Evidence("weather conditions correlate with", pattern), 5, 35, -30, 25))

\* re.search(r"in ([\w\s]+?)(?: \(| with|$)", description): only the "High volume in
\* {v} ({c} orders)" descriptions hold "in " before the value
location_of(pattern) == IF pattern.tmpl = "High volume in" THEN strip(pattern.value) ELSE "Unknown"

_analyze_geographic_root_cause(pattern, relevant_data) ==
  IF empty(relevant_data, "orders").raised
  THEN Raised
  ELSE Ok(RootCause(<<"Geographic Hotspot: Operational Challenges in ", location_of(pattern)>>,
                    75, "medium", Evidence("represents", pattern), 5, 18, -15, 8))

_generate_general_rca ==
  << RootCause(<<"Systemic Operational Inefficiencies">>, 65, "medium",
               <<"Analysis indicates multiple contributing factors">>, 5, 22, -20, 15) >>

\* a prompt is modelled by the keywords of _get_llm_response that its text holds
\* the keywords held by the evidence text of a root cause
KeywordsIn(evidence) ==
  CASE evidence[1] \in {"Customer unavailability causes", "weather conditions correlate with", "R1"}
         -> {"delivery failures"}
    [] evidence[1] = "R2" -> {"operational efficiency"}
    [] evidence[1] = "R3" -> {"customer satisfaction", "feedback"}
    [] OTHER -> {}

\* the data summary of a prompt: "... with {n} failed orders ..." when orders is non-empty
DataSummary(relevant_data) == IF Get(relevant_data, "orders") # <<>> THEN {"failed orders"} ELSE {}

\* every prompt ends by naming "feedback.csv"
_craft_llm_prompt_for_rca(relevant_data) == DataSummary(relevant_data) \cup {"feedback"}

_craft_llm_prompt_for_recommendations(root_causes, relevant_data) ==
  UNION {KeywordsIn(root_causes[i].evidence) : i \in 1..Len(root_causes)}
  \cup DataSummary(relevant_data) \cup {"feedback"}

\* the simulated LLM: one of four canned answers, chosen by the keywords of the prompt
_get_llm_response(prompt) ==
  IF "delivery failures" \in prompt \/ "failed orders" \in prompt THEN "R1"
  ELSE IF "operational efficiency" \in prompt \/ "optimize routes" \in prompt THEN "R2"
  ELSE IF "customer satisfaction" \in prompt \/ "feedback" \in prompt THEN "R3"
  ELSE "R4"

LlmRootCause(relevant_data) ==
  [cause |-> <<"LLM-Enhanced Root Cause Insight">>, confidence |-> 90, impact |-> "high",
   evidence |-> <<_get_llm_response(_craft_llm_prompt_for_rca(relevant_data))>>,
   contributing_factors |-> 1, business_impact |-> <<>>]

\* the causes of a loop over patterns, or Raised when one of the calls raised
AllOk(results) ==
  IF \E i \in 1..Len(results) : results[i].raised THEN Raised
  ELSE Ok([i \in 1..Len(results) |-> results[i].value])

\* the analysis the loop over patterns of a type calls
MapPattern(type, pattern, relevant_data) ==
  CASE type = "failure_pattern" -> _analyze_failure_root_cause(pattern, relevant_data)
    [] type = "weather_correlation" -> _analyze_weather_root_cause(pattern, relevant_data)
    [] type = "geographic_pattern" -> _analyze_geographic_root_cause(pattern, relevant_data)

\* `for pattern in [p for p in patterns if p["type"] == type]`
MapPatterns(patterns, relevant_data, type) ==
  AllOk([i \in 1..Len(patterns) |-> MapPattern(type, patterns[i], relevant_data)])

OfType(patterns, type) == SelectSeq(patterns, LAMBDA p : p.type = type)

\* a variant of GeneralFallback: no generic cause
NoFallback(root_causes) == root_causes

\* `if not root_causes: root_causes = self._generate_general_rca(...)`
GeneralFallback(root_causes) == IF root_causes = <<>> THEN _generate_general_rca ELSE root_causes

\* a variant of WithLlmInsight: no LLM insight
NoLlmInsight(root_causes, relevant_data, model_loaded) == root_causes

\* `if self.sentence_model: root_causes.append({... "LLM-Enhanced Root Cause Insight" ...})`
WithLlmInsight(root_causes, relevant_data, model_loaded) ==
  IF model_loaded THEN Append(root_causes, LlmRootCause(relevant_data)) ELSE root_causes

\* f, w, g: the outcomes of the failure, weather and geographic loops, in that order
Combine(f, w, g, relevant_data, model_loaded) ==
  IF f.raised \/ w.raised \/ g.raised THEN Raised
  ELSE Ok(WithLlmInsight(GeneralFallback(f.value \o w.value \o g.value), relevant_data, model_loaded))

\* _perform_detailed_rca up to the deduplication
CollectRootCauses(relevant_data, patterns, model_loaded) ==
  Combine(MapPatterns(OfType(patterns, "failure_pattern"), relevant_data, "failure_pattern"),
          MapPatterns(OfType(patterns, "weather_correlation"), relevant_data, "weather_correlation"),
          MapPatterns(OfType(patterns, "geographic_pattern"), relevant_data, "geographic_pattern"),
          relevant_data, model_loaded)

\* a variant of DeduplicateByCause: the last entry of each cause is kept, not the first
RECURSIVE DeduplicateKeepLast(_)
DeduplicateKeepLast(root_causes) ==
  IF root_causes = <<>> THEN <<>>
  ELSE IF \E i \in 2..Len(root_causes) : root_causes[i].cause = Head(root_causes).cause
       THEN DeduplicateKeepLast(Tail(root_causes))
       ELSE <<Head(root_causes)>> \o DeduplicateKeepLast(Tail(root_causes))

\* the seen_causes loop: keep an entry iff its cause was not seen before
RECURSIVE DeduplicateByCause(_)
DeduplicateByCause(root_causes) ==
  IF root_causes = <<>> THEN <<>>
  ELSE LET init == DeduplicateByCause(SubSeq(root_causes, 1, Len(root_causes) - 1))
           rc   == root_causes[Len(root_causes)]
       IN  IF \E i \in 1..Len(init) : init[i].cause = rc.cause THEN init ELSE Append(init, rc)

Deduplicated(collected) ==
  IF collected.raised THEN Raised ELSE Ok(DeduplicateByCause(collected.value))

_perform_detailed_rca(relevant_data, patterns, model_loaded) ==
  Deduplicated(CollectRootCauses(relevant_data, patterns, model_loaded))


\* ------------------------------------------------- Recommendation Synthesizer
Recommendation(title, priority, category) ==
  [title |-> title, priority |-> priority, category |-> category]

\* the static catalog entries emitted for one root cause (the if/elif chain)
CatalogFor(cause) ==
  IF Contains(cause, "Address") THEN
    << Recommendation("Implement Advanced Address Validation System", "high", "technology_upgrade"),
       Recommendation("Enhance Driver Training for Address Navigation", "medium", "training") >>
  ELSE IF Contains(cause, "Customer not available") THEN
    << Recommendation("Optimize Customer Communication & Flexi-Delivery Options", "high", "process_improvement"),
       Recommendation("Empower Drivers with Customer Contact Tools", "medium", "technology_enhancement") >>
  ELSE IF Contains(cause, "Weather delay") THEN
    << Recommendation("Implement Weather-Aware Dynamic Route Optimization", "high", "technology_upgrade"),
       Recommendation("Enhance Driver Safety Training for Adverse Weather", "medium", "training") >>
  ELSE IF Contains(cause, "Traffic congestion") THEN
    << Recommendation("Implement AI-Powered Traffic Prediction & Routing", "high", "technology_upgrade"),
       Recommendation("Optimize Delivery Time Windows for Peak Hours", "medium", "process_improvement") >>
  ELSE IF Contains(cause, "Process inefficiency") \/ Contains(cause, "Systemic Operational Inefficiencies") THEN
    << Recommendation("Conduct Comprehensive Operational Audit", "high", "process_improvement"),
       Recommendation("Implement Automated Workflow & Communication Tools", "medium", "technology_enhancement") >>
  ELSE <<>>

\* recommendations.extend(rec_list) for each root cause, in order
RuleBasedRecommendations(root_causes) ==
  Concat([i \in 1..Len(root_causes) |-> CatalogFor(root_causes[i].cause)])

\* llm_recommendations_raw.split(". "): the sentences of the canned answer
Sentences(response) ==
  CASE response = "R1" -> <<"R1 sentence 1", "R1 sentence 2", "R1 sentence 3">>
    [] response = "R2" -> <<"R2 sentence 1", "R2 sentence 2">>
    [] response = "R3" -> <<"R3 sentence 1", "R3 sentence 2">>
    [] OTHER           -> <<"R4 sentence 1", "R4 sentence 2">>

\* a variant of _generate_general_recommendations: the dashboard entry alone
OnlyDashboardRecommendation ==
  << Recommendation("Implement Predictive Analytics Dashboard", "medium", "analytics") >>

_generate_general_recommendations ==
  << Recommendation("Implement Predictive Analytics Dashboard", "medium", "analytics"),
     Recommendation("Establish Continuous Improvement Program", "low", "process_improvement") >>

\* append each candidate whose title is not in seen, adding it to seen; returns both
RECURSIVE AppendUnseen(_, _, _)
AppendUnseen(recommendations, seen, candidates) ==
  IF candidates = <<>> THEN [recs |-> recommendations, seen |-> seen]
  ELSE LET c == Head(candidates)
       IN  IF c.title \in seen
           THEN AppendUnseen(recommendations, seen, Tail(candidates))
           ELSE AppendUnseen(Append(recommendations, c), seen \cup {c.title}, Tail(candidates))

priority_scores(priority) ==
  CASE priority = "high" -> 3 [] priority = "medium" -> 2 [] priority = "low" -> 1 [] OTHER -> 0

\* a variant of InsertByPriority: r goes before the entries of its own score
RECURSIVE InsertBeforeEqual(_, _)
InsertBeforeEqual(sorted, r) ==
  IF sorted = <<>> THEN <<r>>
  ELSE IF priority_scores(Head(sorted).priority) > priority_scores(r.priority)
       THEN <<Head(sorted)>> \o InsertBeforeEqual(Tail(sorted), r)
       ELSE <<r>> \o sorted

\* list.sort(key=score, reverse=True): stable, highest score first
RECURSIVE InsertByPriority(_, _)
InsertByPriority(sorted, r) ==
  IF sorted = <<>> THEN <<r>>
  ELSE IF priority_scores(Head(sorted).priority) >= priority_scores(r.priority)
       THEN <<Head(sorted)>> \o InsertByPriority(Tail(sorted), r)
       ELSE <<r>> \o sorted

RECURSIVE _prioritize_recommendations(_)
_prioritize_recommendations(recommendations) ==
  IF recommendations = <<>> THEN <<>>
  ELSE InsertByPriority(
         _prioritize_recommendations(SubSeq(recommendations, 1, Len(recommendations) - 1)),
         recommendations[Len(recommendations)])

\* the LLM's sentences as recommendations
LlmRecommendations(titles) ==
  [i \in 1..Len(titles) |-> Recommendation(titles[i], "medium", "llm_generated_insight")]

\* the general recommendations whose title was not seen
WithGeneral(acc) == AppendUnseen(acc.recs, acc.seen, _generate_general_recommendations).recs

\* seen_recommendation_titles starts empty and receives only the LLM and the general
\* titles: the rule-based entries are extended into the list without a look at it
Accumulated(root_causes, relevant_data, model_loaded) ==
  WithGeneral(
    IF model_loaded /\ root_causes # <<>>
    THEN AppendUnseen(RuleBasedRecommendations(root_causes), {},
                      LlmRecommendations(Sentences(_get_llm_response(
                        _craft_llm_prompt_for_recommendations(root_causes, relevant_data)))))
    ELSE [recs |-> RuleBasedRecommendations(root_causes), seen |-> {}])

\* the accumulated list, then `recommendations = self._prioritize_recommendations(recommendations)`
_generate_detailed_recommendations(root_causes, relevant_data, model_loaded) ==
  _prioritize_recommendations(Accumulated(root_causes, relevant_data, model_loaded))

\* ---------------------------------------------------------- Impact summary
\* sum(rc.get("business_impact", {}).get(field, 0) for rc in root_causes); k is the
\* position of the field in business_impact
RECURSIVE SumImpact(_, _)
SumImpact(root_causes, k) ==
  IF root_causes = <<>> THEN 0
  ELSE (IF Head(root_causes).business_impact = <<>> THEN 0 ELSE Head(root_causes).business_impact[k])
       + SumImpact(Tail(root_causes), k)

\* a variant of CountPriority: every recommendation counts, whatever its priority
CountAnyPriority(recommendations, priority) == Len(recommendations)

CountPriority(recommendations, priority) ==
  Cardinality({i \in 1..Len(recommendations) : recommendations[i].priority = priority})

_analyze_impact(root_causes, recommendations) ==
  [current_impact |-> <<SumImpact(root_causes, 1), SumImpact(root_causes, 2), SumImpact(root_causes, 3)>>,
   estimated_annual_savings |->
     CountPriority(recommendations, "high") * 50000 + CountPriority(recommendations, "medium") * 25000]


\* --------------------------------------------------------- Intent Classifier
\* a query is a sequence of words; " " is a run of white space standing alone
Words == {" ", "why", "failing", "delay", "customer", "yesterday", "delhi"}

\* str.strip() of a query: leading and trailing white space removed
RECURSIVE StripLeft(_)
StripLeft(q) == IF q # <<>> /\ Head(q) = " " THEN StripLeft(Tail(q)) ELSE q

RECURSIVE StripRight(_)
StripRight(q) == IF q # <<>> /\ q[Len(q)] = " " THEN StripRight(SubSeq(q, 1, Len(q) - 1)) ELSE q

StripQuery(q) == StripRight(StripLeft(q))

\* the literals of the analysis patterns that a word of the vocabulary holds as a substring
Literals(word) ==
  CASE word = "why"       -> {"why"}
    [] word = "failing"   -> {"fail"}
    [] word = "delay"     -> {"delay"}
    [] word = "customer"  -> {"customer"}
    [] word = "yesterday" -> {"yesterday"}
    [] word = "predict"   -> {"predict"}
    [] OTHER              -> {}

\* re.search(pattern, query_lower) for a pattern given as its literals separated by ".*"
Search(pattern, q) ==
  IF Len(pattern) = 1
  THEN \E i \in 1..Len(q) : pattern[1] \in Literals(q[i])
  ELSE \E i \in 1..Len(q) : \E j \in (i + 1)..Len(q) :
         pattern[1] \in Literals(q[i]) /\ pattern[2] \in Literals(q[j])

Categories ==
  << "failure_analysis", "performance_analysis", "trend_analysis", "predictive_analysis",
     "geographic_analysis", "client_analysis", "warehouse_analysis", "temporal_analysis" >>

analysis_patterns(category) ==
  CASE category = "failure_analysis" ->
         << <<"why", "fail">>, <<"failure", "reason">>, <<"what", "causing", "fail">>,
            <<"root", "cause">>, <<"investigate", "failure">>, <<"analyze", "problem">>,
            <<"delivery", "fail">>, <<"order", "fail">>, <<"shipment", "fail">> >>
    [] category = "performance_analysis" ->
         << <<"performance">>, <<"slow">>, <<"delay">>, <<"bottleneck">>, <<"optimize">>,
            <<"improve", "speed">>, <<"reduce", "time">>, <<"efficiency">>, <<"late", "delivery">> >>
    [] category = "trend_analysis" ->
         << <<"trend">>, <<"pattern">>, <<"increase">>, <<"decrease">>, <<"over", "time">>,
            <<"seasonal">>, <<"monthly">>, <<"weekly">>, <<"comparison">>, <<"compare">> >>
    [] category = "predictive_analysis" ->
         << <<"predict">>, <<"forecast">>, <<"future">>, <<"likely">>, <<"risk">>,
            <<"probability">>, <<"chance">>, <<"what", "happen">>, <<"expect">> >>
    [] category = "geographic_analysis" ->
         << <<"location">>, <<"region">>, <<"city">>, <<"state">>, <<"geographic">>,
            <<"where", "problem">>, <<"which", "area">>, <<"california">>, <<"texas">>, <<"new york">> >>
    [] category = "client_analysis" ->
         << <<"client">>, <<"customer">>, <<"client", "x">>, <<"customer", "x">>,
            <<"enterprise">>, <<"retail">>, <<"specific", "client">> >>
    [] category = "warehouse_analysis" ->
         << <<"warehouse">>, <<"warehouse", "b">>, <<"distribution">>, <<"hub">>,
            <<"facility">>, <<"storage">> >>
    [] category = "temporal_analysis" ->
         << <<"yesterday">>, <<"last week">>, <<"last month">>, <<"august">>, <<"festival">>,
            <<"holiday">>, <<"weekend">>, <<"time", "period">> >>

\* a variant of confidence_scores: the share of matching patterns as a percentage
confidence_percent(category, q) ==
  << 100 * Cardinality({k \in 1..Len(analysis_patterns(category)) :
                          Search(analysis_patterns(category)[k], q)}),
     Len(analysis_patterns(category)) >>

\* matches / len(patterns)
confidence_scores(category, q) ==
  LET patterns == analysis_patterns(category)
  IN  << Cardinality({k \in 1..Len(patterns) : Search(patterns[k], q)}), Len(patterns) >>

RatLess(a, b) == a[1] * b[2] < b[1] * a[2]

\* a variant of MaxCategory: among the categories of maximum confidence, the last
LastMaxCategory(q) ==
  LET scores == [c \in 1..Len(Categories) |-> confidence_scores(Categories[c], q)]
      k == CHOOSE k \in 1..Len(Categories) :
             /\ \A j \in 1..Len(Categories) : ~RatLess(scores[k], scores[j])
             /\ \A j \in (k + 1)..Len(Categories) : RatLess(scores[j], scores[k])
  IN  Categories[k]

\* max(confidence_scores, key=confidence_scores.get): the first category, in the order of
\* the dict, that no other category beats
MaxCategory(q) ==
  LET scores == [c \in 1..Len(Categories) |-> confidence_scores(Categories[c], q)]
      k == CHOOSE k \in 1..Len(Categories) :
             /\ \A j \in 1..Len(Categories) : ~RatLess(scores[k], scores[j])
             /\ \A j \in 1..(k - 1) : RatLess(scores[j], scores[k])
  IN  Categories[k]

\* ------------------------------------------------------------ entity extraction
\* str.lower() of the data values of the vocabulary
lower(v) ==
  CASE v = "Delhi"  -> "delhi"
    [] v = "Failed" -> "failed"
    [] v = "CA"     -> "ca"
    [] OTHER        -> v

\* re.findall(r'\b(?:a|b)\b', query, re.IGNORECASE): the words of the query that are one
\* of the alternatives, in the order of the query
FindAll(alternatives, q) == SelectSeq(q, LAMBDA w : w \in alternatives)

location_patterns ==
  << {"new delhi", "delhi"}, {"chennai", "madras"}, {"surat"}, {"coimbatore"}, {"ahmedabad"},
     {"nagpur"}, {"mysuru", "mysore"}, {"bengaluru", "bangalore"}, {"pune"}, {"mumbai", "bombay"},
     {"tamil nadu", "tn"}, {"gujarat", "gj"}, {"maharashtra", "mh"}, {"karnataka", "ka"}, {"delhi"} >>

\* the last pattern is \d{4}: no word of the vocabulary is a year
time_patterns ==
  << {"yesterday", "today", "tomorrow"}, {"last week", "this week", "next week"},
     {"last month", "this month", "next month"},
     {"august", "september", "october", "november", "december"},
     {"festival", "holiday", "weekend"}, {} >>

\* "client <letter>" and "customer <letter>" need a word of one letter: none in the vocabulary
client_patterns == << {}, {}, {"techcorp", "retailmax", "smallbiz", "e-commerce"} >>

warehouse_patterns ==
  << {}, {"los angeles central", "new york metro", "chicago distribution", "houston hub",
          "miami logistics"} >>

\* entities[key].extend(re.findall(pattern, ...)) for each pattern in turn
ExtendAll(patterns, q) == Concat([k \in 1..Len(patterns) |-> FindAll(patterns[k], q)])

\* the values of a column as a gazetteer: stripped, non-empty
LexiconOf(rows, col) == {strip(v) : v \in Range(dropna(Column(rows, col)))} \ {""}

_build_entity_lexicon(data) ==
  IF DOMAIN data = {}
  THEN [cities |-> {}, states |-> {}, clients |-> {}, warehouses |-> {},
        failure_reasons |-> {}, statuses |-> {}]
  ELSE [cities          |-> LexiconOf(data["orders"], "city") \cup LexiconOf(data["warehouses"], "city"),
        states          |-> LexiconOf(data["orders"], "state") \cup LexiconOf(data["warehouses"], "state"),
        clients         |-> LexiconOf(data["clients"], "client_name") \cup LexiconOf(data["clients"], "client_id"),
        warehouses      |-> LexiconOf(data["warehouses"], "name"),
        failure_reasons |-> LexiconOf(data["orders"], "failure_reason"),
        statuses        |-> LexiconOf(data["orders"], "status")]

_normalize_state(term) ==
  CASE term = "ca" -> "California"
    [] term = "ny" -> "New York"
    [] term = "tx" -> "Texas"
    [] term = "fl" -> "Florida"
    [] term = "il" -> "Illinois"
    [] OTHER       -> term

\* list(a_set): the elements in some fixed order
RECURSIVE SetToSeq(_)
SetToSeq(S) ==
  IF S = {} THEN <<>>
  ELSE LET x == CHOOSE y \in S : TRUE IN <<x>> \o SetToSeq(S \ {x})

\* for c in candidates: if c not in found: found.append(c)
RECURSIVE AppendNew(_, _)
AppendNew(found, candidates) ==
  IF candidates = <<>> THEN found
  ELSE AppendNew(IF Head(candidates) \in Range(found) THEN found ELSE Append(found, Head(candidates)),
                 Tail(candidates))

\* the gazetteer entries whose lower-case text occurs in the lower-case query
LexiconMatches(lexicon, q) ==
  SelectSeq(SetToSeq(lexicon), LAMBDA v : lower(v) \in {lower(w) : w \in Range(q)})

StateTokens(q, states) ==
  LET tokens     == SelectSeq(q, LAMBDA w : w # " ")
      normalized == [i \in 1..Len(tokens) |-> _normalize_state(tokens[i])]
  IN  SelectSeq(normalized, LAMBDA t : lower(t) \in {lower(s) : s \in states})

_extract_enhanced_entities(q, entity_lexicon) ==
  [locations       |-> AppendNew(AppendNew(ExtendAll(location_patterns, q),
                                           StateTokens(q, entity_lexicon.states)),
                                 LexiconMatches(entity_lexicon.cities, q)),
   time_periods    |-> ExtendAll(time_patterns, q),
   clients         |-> AppendNew(ExtendAll(client_patterns, q), LexiconMatches(entity_lexicon.clients, q)),
   warehouses      |-> AppendNew(ExtendAll(warehouse_patterns, q), LexiconMatches(entity_lexicon.warehouses, q)),
   failure_reasons |-> AppendNew(<<>>, LexiconMatches(entity_lexicon.failure_reasons, q)),
   statuses        |-> AppendNew(<<>>, LexiconMatches(entity_lexicon.statuses, q))]

\* analysis_type.replace('_', ' ')
replace_underscore(category) ==
  CASE category = "failure_analysis"     -> "failure analysis"
    [] category = "performance_analysis" -> "performance analysis"
    [] category = "trend_analysis"       -> "trend analysis"
    [] category = "predictive_analysis"  -> "predictive analysis"
    [] category = "geographic_analysis"  -> "geographic analysis"
    [] category = "client_analysis"      -> "client analysis"
    [] category = "warehouse_analysis"   -> "warehouse analysis"
    [] category = "temporal_analysis"    -> "temporal analysis"

Clause(label, items) == IF items = <<>> THEN <<>> ELSE <<label>> \o items

_generate_interpreted_query(analysis_type, entities) ==
  <<"Performing ", replace_underscore(analysis_type), " analysis">>
  \o Clause(" for locations: ", entities.locations)
  \o Clause(" in time period: ", entities.time_periods)
  \o Clause(" for clients: ", entities.clients)
  \o Clause(" for warehouses: ", entities.warehouses)

Lowered(q) == [i \in 1..Len(q) |-> lower(q[i])]

IntentResult(query_lower, analysis_type, entities) ==
  [analysis_type     |-> analysis_type,
   confidence_score  |-> confidence_scores(analysis_type, query_lower),
   entities          |-> entities,
   interpreted_query |-> _generate_interpreted_query(analysis_type, entities),
   confidence_scores |-> [c \in Range(Categories) |-> confidence_scores(c, query_lower)]]

_analyze_query_intent(q, entity_lexicon) ==
  IntentResult(Lowered(q), MaxCategory(Lowered(q)), _extract_enhanced_entities(q, entity_lexicon))

\* -------------------------------------------------------------- Data Selector
WorkingSetKeys ==
  {"orders", "fleet_logs", "warehouses", "feedback", "external_factors", "clients", "drivers",
   "warehouse_logs"}

\* AssignmentDataLoader.get_comprehensive_data(): the tables sit under the key "data"
get_comprehensive_data(data) ==
  [data_source |-> "third-assignment-sample-data-set", loaded_at |-> "loaded_at", data |-> data,
   summary |-> "summary", metadata |-> "metadata"]

\* Series.str.contains("|".join(locations), case=False, na=False) on the values of the
\* vocabulary: a value holds a location only when it is that location
str_contains(v, locations) ==
  v # NA /\ \E i \in 1..Len(locations) : lower(locations[i]) = lower(v)

\* dates are day numbers of a calendar of 31-day months
Month(day) == (((day - 1) \div 31) % 12) + 1

\* one period of _apply_time_filters
TimeFilter(rows, period, now) ==
  CASE period = "yesterday"  -> SelectSeq(rows, LAMBDA r : r["order_date"] = now - 1)
    [] period = "last week"  -> SelectSeq(rows, LAMBDA r : r["order_date"] >= now - 7)
    [] period = "last month" -> SelectSeq(rows, LAMBDA r : r["order_date"] >= now - 30)
    [] period = "august"     -> SelectSeq(rows, LAMBDA r : Month(r["order_date"]) = 8)
    [] OTHER                 -> rows

RECURSIVE _apply_time_filters(_, _, _)
_apply_time_filters(rows, time_periods, now) ==
  IF rows = <<>> \/ time_periods = <<>> THEN rows
  ELSE _apply_time_filters(TimeFilter(rows, Head(time_periods), now), Tail(time_periods), now)

_retrieve_generated_data(sample_data, entities, now) ==
  LET orders   == Get(sample_data, "orders")
      located  == IF entities.locations = <<>> THEN orders
                  ELSE SelectSeq(orders, LAMBDA r :
                         \/ str_contains(Cell(r, "delivery_city"), entities.locations)
                         \/ str_contains(Cell(r, "delivery_state"), entities.locations))
      filtered == IF entities.time_periods = <<>> THEN located
                  ELSE _apply_time_filters(located, entities.time_periods, now)
  IN  [orders            |-> filtered,
       fleet             |-> head(Get(sample_data, "fleet"), 100),
       warehouse         |-> head(Get(sample_data, "warehouse"), 50),
       customer_feedback |-> head(Get(sample_data, "customer_feedback"), 100),
       contextual_data   |-> head(Get(sample_data, "contextual_data"), 200)]

\* sample_data and assignment_data are dicts; an empty dict is falsy
_retrieve_relevant_data(sample_data, assignment_data, entities, now) ==
  IF DOMAIN sample_data = {} THEN [k \in WorkingSetKeys |-> <<>>]
  ELSE IF DOMAIN assignment_data # {}
       THEN LET comprehensive_data == get_comprehensive_data(assignment_data)
            IN  [k \in WorkingSetKeys |->
                   IF k \in DOMAIN comprehensive_data THEN comprehensive_data[k] ELSE <<>>]
       ELSE _retrieve_generated_data(sample_data, entities, now)

\* ------------------------------------------- AssignmentDataLoader.get_filtered_data
\* filtered_df[col].str.contains(value, case=False, na=False) or-ed over the values and the
\* columns; df[col] of a column the frame does not have raises KeyError, and the frame of a
\* table without rows has no column
ContainsFilter(rows, values, cols) ==
  IF values = <<>> THEN Ok(rows)
  ELSE IF ~(cols \subseteq Columns(rows)) THEN Raised
  ELSE Ok(SelectSeq(rows, LAMBDA r : \E c \in cols : str_contains(Cell(r, c), values)))

\* one period of the loader's _apply_time_filters on the column date_column
LoaderTimeFilter(rows, period, date_column, now) ==
  CASE period = "yesterday"  -> SelectSeq(rows, LAMBDA r : r[date_column] = now - 1)
    [] period = "last week"  -> SelectSeq(rows, LAMBDA r : r[date_column] >= now - 7)
    [] period = "last month" -> SelectSeq(rows, LAMBDA r : r[date_column] >= now - 30)
    [] period = "august"     -> SelectSeq(rows, LAMBDA r : Month(r[date_column]) = 8)
    [] period \in {"festival", "holiday"} -> SelectSeq(rows, LAMBDA r : Month(r[date_column]) \in {11, 12})
    [] OTHER                 -> rows

\* `if df.empty or date_column not in df.columns: return df`, then one filter per period
RECURSIVE loader_apply_time_filters(_, _, _, _)
loader_apply_time_filters(rows, time_periods, date_column, now) ==
  IF rows = <<>> \/ date_column \notin Columns(rows) \/ time_periods = <<>> THEN rows
  ELSE loader_apply_time_filters(LoaderTimeFilter(rows, Head(time_periods), date_column, now),
                                 Tail(time_periods), date_column, now)

\* by locations on city and state, by time periods on order_date, by clients on client_id
_filter_orders(rows, query_entities, now) ==
  LET located == ContainsFilter(rows, query_entities.locations, {"city", "state"})
  IN  IF located.raised THEN Raised
      ELSE ContainsFilter(loader_apply_time_filters(located.value, query_entities.time_periods,
                                                    "order_date", now),
                          query_entities.clients, {"client_id"})

\* the filter of each table get_filtered_data handles
FilteredTable(table, rows, query_entities, now) ==
  CASE table = "orders"     -> _filter_orders(rows, query_entities, now)
    [] table = "warehouses" -> ContainsFilter(rows, query_entities.locations, {"city", "state"})
    [] table = "fleet_logs" ->
         Ok(loader_apply_time_filters(rows, query_entities.time_periods, "departure_time", now))
    [] table = "external_factors" ->
         Ok(loader_apply_time_filters(rows, query_entities.time_periods, "recorded_at", now))
    [] table = "clients"    -> ContainsFilter(rows, query_entities.clients, {"client_name", "client_id"})
    [] table = "feedback"   ->
         Ok(loader_apply_time_filters(rows, query_entities.time_periods, "created_at", now))

FilteredTables == {"orders", "warehouses", "fleet_logs", "external_factors", "clients", "feedback"}

\* AssignmentDataLoader.get_filtered_data: the filtered tables, or the exception of the
\* first filter that raises
get_filtered_data(data, query_entities, now) ==
  LET tables == DOMAIN data \cap FilteredTables
  IN  IF \E t \in tables : FilteredTable(t, data[t], query_entities, now).raised THEN Raised
      ELSE Ok([t \in tables |-> FilteredTable(t, data[t], query_entities, now).value])

\* the entity sets given to the loader
LoaderEntities ==
  [locations : {<<>>, <<"delhi">>}, time_periods : {<<>>, <<"yesterday">>},
   clients : {<<>>, <<"techcorp">>}]

\* ------------------------------------------------- semantic and clustering stages
SemanticCategories ==
  << "failure_reasons", "weather_conditions", "traffic_conditions", "delay_notes", "cities", "statuses" >>

\* df[col].dropna().unique().tolist() of the table and column a category reads
SemanticTexts(relevant_data, category) ==
  LET table == CASE category \in {"failure_reasons", "cities", "statuses"}            -> "orders"
                 [] category \in {"weather_conditions", "traffic_conditions"}         -> "external_factors"
                 [] OTHER                                                             -> "fleet_logs"
      col   == CASE category = "failure_reasons"    -> "failure_reason"
                 [] category = "cities"             -> "city"
                 [] category = "statuses"           -> "status"
                 [] category = "weather_conditions" -> "weather_condition"
                 [] category = "traffic_conditions" -> "traffic_condition"
                 [] OTHER                           -> "gps_delay_notes"
  IN  unique(dropna(Column(Get(relevant_data, table), col)))

\* the categories for which _get_semantic_similarity is called
CategoriesWithTexts(relevant_data) ==
  {c \in Range(SemanticCategories) : SemanticTexts(relevant_data, c) # <<>>}

\* `high` is the set of categories in which the embedding model scores some text above
\* similarity_threshold: the model's numbers are outside the program
_find_semantic_patterns(relevant_data, sentence_model, high) ==
  IF ~sentence_model THEN <<>>
  ELSE LET found == SelectSeq(SemanticCategories,
                              LAMBDA c : c \in CategoriesWithTexts(relevant_data) /\ c \in high)
       IN  [i \in 1..Len(found) |-> [type |-> "semantic", category |-> found[i]]]

\* the models _initialize_models tries, the primary one first
ModelNames == {"all-MiniLM-L12-v2", "all-MiniLM-L6-v2"}

\* engine.sentence_model_name after a call that left a model loaded or not: a loaded model
\* stays, a model loaded now is the primary one or, when that failed, the fallback one
LoadedNames(current, loaded) ==
  IF current # "None" THEN {current}
  ELSE IF loaded THEN ModelNames ELSE {"None"}

\* sentence_model.encode([text])[0]: the vector is fixed by the model and the text
encode(model_name, text) == <<model_name, text>>

\* text_embeddings_cache with vectors after the target texts keys went through
\* `if target in self.text_embeddings_cache ... else ... self.text_embeddings_cache[target] =`
Stored(cache, keys, model_name) ==
  [k \in keys |-> IF k \in DOMAIN cache THEN cache[k] ELSE encode(model_name, k)]

\* a variant of CacheAfter: the cache holds the target texts of this call alone
CacheOfCall(cache, relevant_data, sentence_model) ==
  IF ~sentence_model THEN cache
  ELSE UNION {Range(SemanticTexts(relevant_data, c)) : c \in CategoriesWithTexts(relevant_data)}

\* the keys of text_embeddings_cache after _find_semantic_patterns: every target text
\* that was not cached is encoded and stored
CacheAfter(cache, relevant_data, sentence_model) ==
  IF ~sentence_model THEN cache
  ELSE cache \cup UNION {Range(SemanticTexts(relevant_data, c)) : c \in CategoriesWithTexts(relevant_data)}

HasText(row, cols) == \E c \in cols : Cell(row, c) # NA

\* len(all_texts): the rows of orders and external_factors that have some text part
ClusterTexts(relevant_data) ==
  Len(SelectSeq(Get(relevant_data, "orders"), LAMBDA r : HasText(r, {"failure_reason", "city", "status"})))
  + Len(SelectSeq(Get(relevant_data, "external_factors"),
                  LAMBDA r : HasText(r, {"weather_condition", "traffic_condition", "event_type"})))

\* the labelings KMeans.fit_predict can return for n texts; clustering needs more than 5
ClusterLabelings(n) == IF n > 5 THEN [1..n -> 0..4] ELSE {<<>>}

\* one cluster per label carried by more than one text
_perform_clustering_analysis(relevant_data, sentence_model, clustering_model, labels) ==
  IF ~sentence_model \/ ~clustering_model \/ ClusterTexts(relevant_data) <= 5 THEN <<>>
  ELSE LET big == SelectSeq(<<0, 1, 2, 3, 4>>, LAMBDA id :
                    Cardinality({i \in DOMAIN labels : labels[i] = id}) > 1)
       IN  [i \in 1..Len(big) |->
              [type |-> "semantic_cluster", cluster_id |-> big[i],
               cluster_size |-> Cardinality({j \in DOMAIN labels : labels[j] = big[i]})]]


\* ------------------------------------------ EnhancedAIAnalysisEngine.analyze_query
\* sentence_model and clustering_model are the models after the re-initialization
\* attempt; the result is Raised when a stage raises
EngineResult(q, query_analysis, traditional_patterns, semantic_patterns, clustering_patterns, root_causes, recommendations) ==
  [original_query      |-> q,
   interpreted_query   |-> query_analysis.interpreted_query,
   analysis_type       |-> query_analysis.analysis_type,
   confidence_score    |-> query_analysis.confidence_score,
   query_entities      |-> query_analysis.entities,
   patterns_identified |->
     [traditional_patterns |-> traditional_patterns,
      semantic_patterns    |-> semantic_patterns,
      clustering_patterns  |-> clustering_patterns,
      total_patterns       |-> Len(traditional_patterns) + Len(semantic_patterns)
                               + Len(clustering_patterns)],
   root_causes         |-> root_causes,
   recommendations     |-> recommendations,
   impact_analysis     |-> _analyze_impact(root_causes, recommendations),
   data_sources        |-> <<"third-assignment-sample-data-set", "enhanced_ai_engine">>]

\* steps 8 to 10 and the return, once the root causes are known
AfterRca(q, query_analysis, relevant_data, traditional_patterns, semantic_patterns, clustering_patterns, rca, sentence_model) ==
  IF rca.raised THEN Raised
  ELSE Ok(EngineResult(q, query_analysis, traditional_patterns, semantic_patterns,
                       clustering_patterns, rca.value,
                       _generate_detailed_recommendations(rca.value, relevant_data, sentence_model)))

\* steps 6 and 7, once the three kinds of pattern are known
AfterPatterns(q, query_analysis, relevant_data, traditional_patterns, semantic_patterns, clustering_patterns, sentence_model) ==
  AfterRca(q, query_analysis, relevant_data, traditional_patterns, semantic_patterns,
           clustering_patterns,
           _perform_detailed_rca(relevant_data,
                                 traditional_patterns \o semantic_patterns \o clustering_patterns,
                                 sentence_model),
           sentence_model)

\* steps 3 to 5, once the working set is known
AfterRetrieval(q, query_analysis, relevant_data, sentence_model, clustering_model, high, labels) ==
  AfterPatterns(q, query_analysis, relevant_data,
                _analyze_patterns(relevant_data),
                _find_semantic_patterns(relevant_data, sentence_model, high),
                _perform_clustering_analysis(relevant_data, sentence_model, clustering_model, labels),
                sentence_model)

\* step 2, once the query is understood
AfterIntent(q, now, query_analysis, sentence_model, clustering_model, sample_data, assignment_data, high, labels) ==
  AfterRetrieval(q, query_analysis,
                 _retrieve_relevant_data(sample_data, assignment_data, query_analysis.entities, now),
                 sentence_model, clustering_model, high, labels)

\* sentence_model and clustering_model are the models after the re-initialization
\* attempt; the result is Raised when a stage raises
engine_analyze_query(q, now, sentence_model, clustering_model, sample_data, assignment_data, high, labels) ==
  AfterIntent(q, now, _analyze_query_intent(q, _build_entity_lexicon(assignment_data)),
              sentence_model, clustering_model, sample_data, assignment_data, high, labels)

\* ------------------------------------------------------------ AIQueryAnalyzer
_fallback_analysis(q) ==
  [original_query      |-> q,
   interpreted_query   |-> <<"Basic analysis of: ">> \o q,
   analysis_type       |-> "general",
   confidence_score    |-> <<1, 2>>,
   query_entities      |-> [locations |-> <<>>, time_periods |-> <<>>, metrics |-> <<>>],
   patterns_identified |-> <<>>,
   root_causes         |-> << [cause |-> <<"System Analysis Required">>, confidence |-> 60,
                               impact |-> "medium",
                               evidence |-> <<"Enhanced analysis temporarily unavailable">>,
                               contributing_factors |-> 2,
                               business_impact |-> <<20, -10, 5>>] >>,
   recommendations     |-> << Recommendation("System Maintenance", "medium", "system") >>,
   impact_analysis     |-> [current_impact |-> <<20, -10, 5>>, estimated_annual_savings |-> 0],
   data_sources        |-> <<"fallback_analysis">>]

\* AIQueryAnalyzer.analyze_query: outcome is what EnhancedAIAnalysisEngine.analyze_query
\* did, read only when there is an engine
analyzer_analyze_query(q, has_engine, outcome) ==
  IF ~has_engine THEN _fallback_analysis(q)
  ELSE IF outcome.raised THEN _fallback_analysis(q)
  ELSE outcome.value

\* ------------------------------------------------------------------ endpoints
\* a variant of IsBlank: the test without strip()
IsEmpty(q) == q = <<>>

\* `not request.query or not request.query.strip()`
IsBlank(q) == q = <<>> \/ StripQuery(q) = <<>>

\* dict.get(key, default)
GetOr(d, key, default) == IF key \in DOMAIN d THEN d[key] ELSE default

\* findings_list of POST /api/ai/analyze: one finding per pattern of each list-valued
\* entry of patterns_identified, one for the count
Findings(patterns_data) ==
  IF DOMAIN patterns_data = {} THEN <<>>
  ELSE LET OfKey(k) == [i \in 1..Len(patterns_data[k]) |-> [type |-> k, pattern |-> patterns_data[k][i]]]
       IN  OfKey("traditional_patterns") \o OfKey("semantic_patterns") \o OfKey("clustering_patterns")
           \o << [type |-> "total_patterns", value |-> patterns_data["total_patterns"]] >>

\* the QueryAnalysis built by POST /api/ai/analyze from the analyzer's result
QueryAnalysis(enhanced_analysis) ==
  [original_query    |-> enhanced_analysis["original_query"],
   interpreted_query |-> GetOr(enhanced_analysis, "processed_query", enhanced_analysis["original_query"]),
   analysis_type     |-> GetOr(enhanced_analysis, "intent", "general"),
   confidence_score  |-> GetOr(GetOr(enhanced_analysis, "insights", <<>>), "confidence_score", <<7, 10>>),
   findings          |-> Findings(GetOr(enhanced_analysis, "patterns_identified", <<>>)),
   root_causes       |-> GetOr(GetOr(enhanced_analysis, "analysis", <<>>), "patterns", <<>>),
   recommendations   |-> GetOr(GetOr(enhanced_analysis, "insights", <<>>), "recommendations", <<>>),
   data_sources      |-> <<"offline_analysis">>]

QueryResponse(success, analysis, error) == [success |-> success, analysis |-> analysis, error |-> error]

\* the attributes an EnhancedAIAnalysisEngine object has
EngineAttributes ==
  {"sample_data_generator", "sentence_model", "sentence_model_name", "tfidf_vectorizer", "sample_data",
   "assignment_data_loader", "text_embeddings_cache", "similarity_threshold", "default_clusters",
   "inr_rate", "clustering_model", "entity_lexicon"}

\* the body of POST /api/ai/advanced-analyze after the analyzer returned: reading
\* enhanced_engine.llm_model_name raises AttributeError, caught by the handler
AdvancedResponse(enhanced_analysis, has_engine) ==
  IF has_engine /\ "llm_model_name" \notin EngineAttributes
  THEN [success |-> FALSE, error |-> "Advanced analysis failed"]
  ELSE [success           |-> TRUE,
        original_query    |-> enhanced_analysis["original_query"],
        interpreted_query |-> GetOr(enhanced_analysis, "processed_query", enhanced_analysis["original_query"]),
        analysis_type     |-> GetOr(enhanced_analysis, "intent", "general"),
        confidence_score  |-> GetOr(GetOr(enhanced_analysis, "insights", <<>>), "confidence_score", <<7, 10>>),
        patterns_identified |-> GetOr(GetOr(enhanced_analysis, "analysis", <<>>), "patterns", <<>>),
        root_causes       |-> GetOr(enhanced_analysis, "root_causes", <<>>),
        recommendations   |-> GetOr(enhanced_analysis, "recommendations", <<>>),
        llm_model         |-> "unavailable"]


\* ------------------------------------------------------- datasets of the model
\* the tables AssignmentDataLoader reads, one list of rows per CSV file
AssignmentDatasets ==
  { [k \in WorkingSetKeys |-> <<>>],
    [k \in WorkingSetKeys |->
       IF k = "orders"
       THEN << [city |-> "Delhi", state |-> "Delhi", status |-> "Failed",
                failure_reason |-> "Address not found"] >>
       ELSE <<>>] }

\* SampleDataGenerator.get_comprehensive_sample_data(): orders never empty, every order
\* with its delivery city and state, its status, its date and, when failed, a reason
GeneratedDatasets ==
  { [orders |-> << [delivery_city |-> "Los Angeles", delivery_state |-> "CA", status |-> "Failed",
                    failure_reason |-> "Weather delay", order_date |-> 15],
                   [delivery_city |-> "Los Angeles", delivery_state |-> "CA", status |-> "Delivered",
                    failure_reason |-> NA, order_date |-> 15] >>,
     fleet |-> <<>>, warehouse |-> <<>>, customer_feedback |-> <<>>, contextual_data |-> <<>>,
     metadata |-> "metadata"] }

_get_fallback_sample_data ==
  [orders |-> << [delivery_city |-> "San Francisco", delivery_state |-> "CA", status |-> "Failed",
                  failure_reason |-> "Address not found", order_date |-> 15,
                  weather_condition |-> "Rain", traffic_condition |-> "Heavy"] >>,
   fleet |-> <<>>, warehouse |-> <<>>, customer_feedback |-> <<>>, contextual_data |-> <<>>]

\* the keys of text_embeddings_cache after _precompute_embeddings
_precompute_embeddings(sample_data, sentence_model) ==
  IF ~sentence_model \/ DOMAIN sample_data = {} THEN {}
  ELSE LET Texts(table, cols) ==
             IF table \in DOMAIN sample_data
             THEN UNION {Range(dropna(Column(sample_data[table], c))) : c \in cols}
             ELSE {}
       IN  {t \in Texts("orders", {"failure_reason", "city", "status"})
                  \cup Texts("external_factors", {"weather_condition", "traffic_condition", "event_type"})
                  \cup Texts("fleet_logs", {"gps_delay_notes"}) : strip(t) # ""}

\* the days on which requests arrive
Nows == {16, 17}

Queries == SeqsUpTo(Words, MaxQueryLen)

\* the rows the pipeline stages are exercised on
OrderRows ==
  { [failure_reason |-> "Weather delay"],
    [failure_reason |-> "Address incomplete"],
    [failure_reason |-> "Wrong Address"],
    [failure_reason |-> "Driver's error"],
    [failure_reason |-> "Driver's absence"],
    [failure_reason |-> NA, status |-> "Delivered", delivery_city |-> " Pune"],
    [failure_reason |-> " ", city |-> "Delhi"] }

ExternalRows ==
  { [weather_condition |-> "Rain", traffic_condition |-> "Heavy"],
    [weather_condition |-> "Clear", traffic_condition |-> NA] }

FleetRows == { [gps_delay_notes |-> "Traffic jam"] }

WorkingSets ==
  { [k \in WorkingSetKeys |->
       CASE k = "orders" -> t[1] [] k = "external_factors" -> t[2] [] k = "fleet_logs" -> t[3]
         [] OTHER -> <<>>] :
    t \in { u \in SeqsUpTo(OrderRows, MaxRows) \X SeqsUpTo(ExternalRows, MaxRows)
                  \X SeqsUpTo(FleetRows, MaxRows) :
            Len(u[1]) + Len(u[2]) + Len(u[3]) <= MaxRows } }

\* n rows equal to row
Repeat(row, n) == [i \in 1..n |-> row]

\* a working set whose only rows are those of one table
OnlyTable(table, rows) == [k \in WorkingSetKeys |-> IF k = table THEN rows ELSE <<>>]

\* 100 orders of Los Angeles, CA, 20 of them failed with "Address not found"
Scenario1WorkingSet ==
  OnlyTable("orders",
            Repeat([city |-> "Los Angeles", state |-> "CA", status |-> "Failed",
                    failure_reason |-> "Address not found"], 20)
            \o Repeat([city |-> "Los Angeles", state |-> "CA", status |-> "Delivered",
                       failure_reason |-> NA], 80))

\* 50 external_factors rows, 8 of them with weather_condition "Rain"
Scenario3WorkingSet ==
  OnlyTable("external_factors",
            Repeat([weather_condition |-> "Rain"], 8) \o Repeat([weather_condition |-> "Clear"], 42))

\* one order of a blank city; ten external_factors rows whose weather_condition is "Rain"
\* four times, blank three times, "Clear" twice and "Fog" once
BlankValuesWorkingSet ==
  [k \in WorkingSetKeys |->
     CASE k = "orders" -> << [city |-> " ", status |-> "Delivered"] >>
       [] k = "external_factors" ->
            Repeat([weather_condition |-> "Rain"], 4) \o Repeat([weather_condition |-> " "], 3)
            \o Repeat([weather_condition |-> "Clear"], 2) \o Repeat([weather_condition |-> "Fog"], 1)
       [] OTHER -> <<>>]

ScenarioWorkingSets == {Scenario1WorkingSet, Scenario3WorkingSet, BlankValuesWorkingSet}

\* ------------------------------------------------------------- API gateway
\* minutes; a token is the record of what jwt.encode signed: its payload and the key
ACCESS_TOKEN_EXPIRE_MINUTES == 30

\* the longest time the gateway is followed, the time between two requests, and the
\* number of tokens login issues
MaxClock == 40
TickMinutes == 10
MaxTokens == 2

SECRET_KEY == "SECRET_KEY"

USERS ==
  [username \in {"admin", "operations_manager", "fleet_manager", "warehouse_manager",
                 "data_analyst", "customer_service"} |->
     CASE username = "admin" ->
            [password |-> "admin123", role |-> "admin", permissions |-> <<"*">>]
       [] username = "operations_manager" ->
            [password |-> "ops123", role |-> "operations_manager", permissions |-> <<"orders", "analytics">>]
       [] username = "fleet_manager" ->
            [password |-> "fleet123", role |-> "fleet_manager", permissions |-> <<"fleet", "analytics">>]
       [] username = "warehouse_manager" ->
            [password |-> "warehouse123", role |-> "warehouse_manager", permissions |-> <<"warehouse", "analytics">>]
       [] username = "data_analyst" ->
            [password |-> "analyst123", role |-> "data_analyst", permissions |-> <<"analytics">>]
       [] username = "customer_service" ->
            [password |-> "cs123", role |-> "customer_service", permissions |-> <<"orders", "feedback">>]]

\* jwt.encode(payload, key): the token carries its payload and the key that signed it
Jwt(payload, key) == [kind |-> "jwt", payload |-> payload, key |-> key]

\* utcnow is datetime.utcnow() at the call
create_access_token(data, expires_delta, utcnow) ==
  Jwt([sub |-> data.sub, exp |-> utcnow + expires_delta], SECRET_KEY)

Unauthorized(detail) == [status |-> 401, detail |-> detail]

\* the user record verify_token returns
UserInfo(username) ==
  [username |-> username, role |-> USERS[username].role, permissions |-> USERS[username].permissions]

\* jwt.decode raises ExpiredSignatureError: the exp claim is past. No version of the JWT
\* library is fixed by the repository: PyJWT 2 rejects when exp <= now (at_exp), PyJWT 1
\* when exp < now
Expired(payload, utcnow, at_exp) ==
  /\ "exp" \in DOMAIN payload
  /\ payload.exp < utcnow \/ (at_exp /\ payload.exp = utcnow)

\* verify_token: 401 for a token that does not decode (malformed, other key, expired) or
\* whose sub is missing or unknown; the user record otherwise
verify_token(token, utcnow, at_exp) ==
  IF token.kind # "jwt" \/ token.key # SECRET_KEY
  THEN Unauthorized("Invalid authentication credentials")
  ELSE IF Expired(token.payload, utcnow, at_exp)
  THEN Unauthorized("Token has expired")
  ELSE IF "sub" \notin DOMAIN token.payload \/ token.payload.sub \notin DOMAIN USERS
  THEN Unauthorized("Invalid authentication credentials")
  ELSE [status |-> 200, user |-> UserInfo(token.payload.sub)]

\* a variant of Authenticates: the password is not compared
KnownUser(username, password) == username \in DOMAIN USERS

\* `username in USERS and USERS[username]["password"] == password`
Authenticates(username, password) ==
  username \in DOMAIN USERS /\ USERS[username].password = password

\* the response of POST /auth/login at time utcnow
LoginResponse(username, password, utcnow) ==
  IF Authenticates(username, password)
  THEN [status |-> 200,
        access_token |-> create_access_token([sub |-> username], ACCESS_TOKEN_EXPIRE_MINUTES, utcnow),
        token_type |-> "bearer", user |-> UserInfo(username)]
  ELSE Unauthorized("Invalid username or password")

\* a variant of AdminOnly: every authenticated user passes
AnyRole(user) == TRUE

\* `if user.get("role") != "admin": raise HTTPException(status_code=403, ...)`
AdminOnly(user) == user.role = "admin"

\* a proxy handler after verify_token returned user: what is forwarded and the answer;
\* backend_ok is whether the call to the backend service succeeded
Forward(service, method, backend_ok) ==
  IF backend_ok THEN [status |-> 200, forwarded |-> <<service, method>>]
  ELSE [status |-> 500, forwarded |-> <<service, method>>]

NotForwarded(response) == [status |-> response.status, detail |-> response.detail, forwarded |-> <<>>]

\* a proxy route depending on verify_token
ProxyResponse(auth, service, method, backend_ok) ==
  IF auth.status # 200 THEN NotForwarded(auth) ELSE Forward(service, method, backend_ok)

\* the four /api/admin/{path} routes
AdminProxyResponse(auth, method, backend_ok) ==
  IF auth.status # 200 THEN NotForwarded(auth)
  ELSE IF ~AdminOnly(auth.user) THEN NotForwarded([status |-> 403, detail |-> "Admin access required"])
  ELSE Forward("admin", method, backend_ok)

\* the credentials tried at login, the routes called, the tokens presented
Usernames == {"admin", "data_analyst", "nobody"}
Passwords == {"admin123", "analyst123", "wrong"}
ProxyRoutes == {<<"data", "GET">>, <<"data", "POST">>, <<"analytics", "GET">>, <<"ai", "POST">>}
AdminMethods == {"GET", "POST", "PUT", "DELETE"}

\* ------------------------------------------------------------------- state
VARIABLES
  enhanced_engine,        \* ai_analyzer.enhanced_engine: "None" or "EnhancedAIAnalysisEngine"
  sentence_model,         \* engine.sentence_model is loaded
  clustering_model,       \* engine.clustering_model is set
  assignment_data,        \* engine.assignment_data_loader.data (the empty dict when the load failed)
  sample_data,            \* engine.sample_data
  text_embeddings_cache,  \* the keys of engine.text_embeddings_cache
  sentence_model_name,    \* engine.sentence_model_name, "None" when no model is loaded
  embeddings,             \* engine.text_embeddings_cache: the vector stored for each key
  last,                   \* the last operation: its inputs, what it called and what it returned
  clock,                  \* gateway: datetime.utcnow(), in minutes
  issued,                 \* gateway: the tokens login returned
  gw_last,                \* gateway: the last request and its response
  pc,                     \* lifespan: "connect", "sleep", "analyzer", then "serving" (after yield)
  retry_count,            \* lifespan: retry_count
  startup_log             \* lifespan: the ping attempts and the waits made so far

engine_vars ==
  <<enhanced_engine, sentence_model, clustering_model, assignment_data, sample_data,
    text_embeddings_cache, sentence_model_name, embeddings>>

gateway_vars == <<clock, issued, gw_last>>

startup_vars == <<pc, retry_count, startup_log>>

vars == <<enhanced_engine, sentence_model, clustering_model, assignment_data, sample_data,
          text_embeddings_cache, sentence_model_name, embeddings, last, clock, issued, gw_last,
          pc, retry_count, startup_log>>

\* lifespan has reached its yield: the ping loop is over and the analyzer was built
StartupDone ==
  /\ pc = "serving"
  /\ retry_count = 0
  /\ startup_log = <<>>

\* the gateway process after start: no token issued, no request made
GatewayStart ==
  /\ clock = 0
  /\ issued = {}
  /\ gw_last = [op |-> "none"]

\* AIQueryAnalyzer(): the engine's constructor raised, or it built an engine whose models
\* loaded or not and whose data is the assignment dataset, the generated one or the
\* one-order fallback
Init ==
  /\ GatewayStart
  /\ StartupDone
  /\ last = [op |-> "none"]
  /\ \/ /\ enhanced_engine = "None"
        /\ sentence_model = FALSE
        /\ sentence_model_name = "None"
        /\ clustering_model = FALSE
        /\ assignment_data = <<>>
        /\ sample_data = <<>>
        /\ text_embeddings_cache = {}
        /\ embeddings = Stored(<<>>, {}, "None")
     \/ /\ enhanced_engine = "EnhancedAIAnalysisEngine"
        /\ sentence_model \in BOOLEAN
        /\ sentence_model_name \in LoadedNames("None", sentence_model)
        /\ clustering_model = sentence_model
        /\ \/ /\ assignment_data \in AssignmentDatasets
              /\ sample_data = get_comprehensive_data(assignment_data)
           \/ /\ assignment_data = <<>>
              /\ sample_data \in GeneratedDatasets \cup {_get_fallback_sample_data}
        /\ text_embeddings_cache = _precompute_embeddings(sample_data, sentence_model)
        /\ embeddings = Stored(<<>>, _precompute_embeddings(sample_data, sentence_model),
                               sentence_model_name)


\* ------------------------------------------------------------------ actions
\* the working set the Data Selector builds for a query in the current state
WorkingSet(q, now) ==
  _retrieve_relevant_data(sample_data, assignment_data,
                          _analyze_query_intent(q, _build_entity_lexicon(assignment_data)).entities, now)

\* a variant of DatasetAfter: the location and time filters are applied to the orders table
\* of the dataset itself
DatasetFilteredInPlace(data, relevant_data) ==
  IF "orders" \in DOMAIN data /\ "orders" \in DOMAIN relevant_data
  THEN [data EXCEPT !["orders"] = relevant_data["orders"]]
  ELSE data

\* engine.sample_data after the working set relevant_data was drawn from it: the filters
\* run on pd.DataFrame(...) built from the rows and on .copy(), the other tables are
\* sliced, and the working set is written to new lists
DatasetAfter(data, relevant_data) == data

\* a variant of ModelAfter: the engine keeps only what this call's attempt loaded
ModelOfAttempt(loaded, reinit) == ~loaded /\ reinit

\* engine.sentence_model after `if not self.sentence_model: self._initialize_models()`:
\* a loaded model stays, a missing one is what the attempt (reinit) produced
ModelAfter(loaded, reinit) == loaded \/ reinit

\* what a call of AIQueryAnalyzer.analyze_query did and left behind; retried is whether
\* the call ran _initialize_models()
Call(q, called, outcome, model, clustering, cache, data) ==
  [called |-> called, outcome |-> outcome, result |-> analyzer_analyze_query(q, called, outcome),
   model |-> model, clustering |-> clustering, cache |-> cache, data |-> data,
   retried |-> called /\ ~sentence_model]

\* AIQueryAnalyzer.analyze_query in the current state: whether the engine was called, what
\* it did, the analyzer's result, and the models and cache the call leaves behind.
\* reinit is the outcome of the _initialize_models() attempt made when no model is loaded
AnalyzerCall(q, now, reinit, relevant_data, high, labels) ==
  IF enhanced_engine = "None"
  THEN Call(q, FALSE, [raised |-> FALSE], sentence_model, clustering_model, text_embeddings_cache,
            sample_data)
  ELSE Call(q, TRUE,
            engine_analyze_query(q, now, ModelAfter(sentence_model, reinit),
                                 IF sentence_model THEN clustering_model ELSE reinit,
                                 sample_data, assignment_data, high, labels),
            ModelAfter(sentence_model, reinit),
            IF sentence_model THEN clustering_model ELSE reinit,
            CacheAfter(text_embeddings_cache, relevant_data, ModelAfter(sentence_model, reinit)),
            DatasetAfter(sample_data, relevant_data))

\* the response each operation builds from the analyzer's result
ResponseOf(op, result) ==
  CASE op = "analyze"  -> QueryResponse(TRUE, QueryAnalysis(result), "")
    [] op = "advanced" -> AdvancedResponse(result, enhanced_engine # "None")
    [] OTHER           -> result

RejectionOf(op) ==
  IF op = "analyze" THEN QueryResponse(FALSE, <<>>, "Query cannot be empty")
  ELSE [success |-> FALSE, error |-> "Query cannot be empty"]

\* the record of a served operation: its inputs, what the analyzer call did, the response
Record(op, q, now, c) ==
  [op |-> op, query |-> q, now |-> now, called |-> c.called, retried |-> c.retried,
   outcome |-> c.outcome, result |-> c.result, model |-> c.model,
   response |-> ResponseOf(op, c.result)]

\* a variant of Served: the models a call loaded are not kept on the engine
ServedModelsDropped(op, q, now, c) ==
  /\ sentence_model' = FALSE
  /\ clustering_model' = FALSE
  /\ text_embeddings_cache' = c.cache
  /\ \E name \in LoadedNames(sentence_model_name, c.model) :
       /\ sentence_model_name' = name
       /\ embeddings' = Stored(embeddings, c.cache, name)
  /\ sample_data' = c.data
  /\ UNCHANGED <<enhanced_engine, assignment_data>>
  /\ UNCHANGED gateway_vars
  /\ UNCHANGED startup_vars
  /\ last' = Record(op, q, now, c)

\* the engine state and the record of the operation after call c
Served(op, q, now, c) ==
  /\ sentence_model' = c.model
  /\ clustering_model' = c.clustering
  /\ text_embeddings_cache' = c.cache
  /\ \E name \in LoadedNames(sentence_model_name, c.model) :
       /\ sentence_model_name' = name
       /\ embeddings' = Stored(embeddings, c.cache, name)
  /\ sample_data' = c.data
  /\ UNCHANGED <<enhanced_engine, assignment_data>>
  /\ UNCHANGED gateway_vars
  /\ UNCHANGED startup_vars
  /\ last' = Record(op, q, now, c)

Rejected(op, q) ==
  /\ last' = [op |-> op, query |-> q, called |-> FALSE, response |-> RejectionOf(op)]
  /\ UNCHANGED engine_vars
  /\ UNCHANGED gateway_vars
  /\ UNCHANGED startup_vars

\* the inputs the embedding and clustering models contribute for a working set
Analyze(op, q, now, reinit, relevant_data) ==
  \E high \in SUBSET CategoriesWithTexts(relevant_data),
     labels \in ClusterLabelings(ClusterTexts(relevant_data)) :
    Served(op, q, now, AnalyzerCall(q, now, reinit, relevant_data, high, labels))

\* no operation is in progress
Idle == last.op = "none" /\ pc = "serving"

\* what the _initialize_models() attempt of a request can do: nothing to attempt when the
\* model is loaded or there is no engine
ReinitOutcomes == IF enhanced_engine = "None" \/ sentence_model THEN {TRUE} ELSE BOOLEAN

\* a direct call of AIQueryAnalyzer.analyze_query
AIQueryAnalyzer_analyze_query ==
  /\ Idle
  /\ \E q \in Queries, now \in Nows, reinit \in ReinitOutcomes :
       Analyze("analyzer", q, now, reinit, WorkingSet(q, now))

\* POST /api/ai/analyze
analyze_query ==
  /\ Idle
  /\ \E q \in Queries, now \in Nows, reinit \in ReinitOutcomes :
       IF IsBlank(q) THEN Rejected("analyze", q)
       ELSE Analyze("analyze", q, now, reinit, WorkingSet(q, now))

\* POST /api/ai/advanced-analyze
advanced_analyze_query ==
  /\ Idle
  /\ \E q \in Queries, now \in Nows, reinit \in ReinitOutcomes :
       IF IsBlank(q) THEN Rejected("advanced", q)
       ELSE Analyze("advanced", q, now, reinit, WorkingSet(q, now))

\* the record of the pipeline stages applied to a working set
Staged(relevant_data, patterns, collected, rca, model_loaded) ==
  [op |-> "pipeline", relevant_data |-> relevant_data, patterns |-> patterns,
   collected |-> collected, rca |-> rca,
   recommendations |-> IF rca.raised THEN <<>>
                       ELSE _generate_detailed_recommendations(rca.value, relevant_data, model_loaded),
   impact_analysis |-> IF rca.raised THEN _analyze_impact(<<>>, <<>>)
                       ELSE _analyze_impact(rca.value,
                              _generate_detailed_recommendations(rca.value, relevant_data, model_loaded)),
   model |-> model_loaded]

StagedFrom(relevant_data, patterns, model_loaded) ==
  Staged(relevant_data, patterns, CollectRootCauses(relevant_data, patterns, model_loaded),
         _perform_detailed_rca(relevant_data, patterns, model_loaded), model_loaded)

\* stages 3, 7 and 8 of the pipeline (_analyze_patterns, _perform_detailed_rca,
\* _generate_detailed_recommendations) of the engine applied to a working set
Pipeline ==
  /\ Idle
  /\ enhanced_engine # "None"
  /\ \E relevant_data \in WorkingSets \cup ScenarioWorkingSets :
       /\ last' = StagedFrom(relevant_data, _analyze_patterns(relevant_data), sentence_model)
       /\ UNCHANGED engine_vars
       /\ UNCHANGED gateway_vars
       /\ UNCHANGED startup_vars

\* the queries given to the Intent Classifier alone: the vocabulary and one more word
IntentQueries == SeqsUpTo(Words \cup {"predict"}, MaxQueryLen)

\* stage 1 of the pipeline (_analyze_query_intent) of the engine applied to a query
AnalyzeIntent ==
  /\ Idle
  /\ enhanced_engine # "None"
  /\ \E q \in IntentQueries :
       last' = [op |-> "intent", query |-> q,
                result |-> _analyze_query_intent(q, _build_entity_lexicon(assignment_data))]
  /\ UNCHANGED engine_vars
  /\ UNCHANGED gateway_vars
  /\ UNCHANGED startup_vars

\* AssignmentDataLoader.get_filtered_data on the loader of the engine
AssignmentDataLoader_get_filtered_data ==
  /\ Idle
  /\ enhanced_engine # "None"
  /\ \E query_entities \in LoaderEntities, now \in Nows :
       last' = [op |-> "filtered", entities |-> query_entities, now |-> now,
                result |-> get_filtered_data(assignment_data, query_entities, now)]
  /\ UNCHANGED engine_vars
  /\ UNCHANGED gateway_vars
  /\ UNCHANGED startup_vars

\* the caller takes the result; the service waits for the next request
Respond ==
  /\ last.op # "none"
  /\ last' = [op |-> "none"]
  /\ UNCHANGED engine_vars
  /\ UNCHANGED gateway_vars
  /\ UNCHANGED startup_vars

Next ==
  \/ AIQueryAnalyzer_analyze_query
  \/ analyze_query
  \/ advanced_analyze_query
  \/ Pipeline
  \/ AnalyzeIntent
  \/ AssignmentDataLoader_get_filtered_data
  \/ Respond

Spec == Init /\ [][Next]_vars

\* ----------------------------------------------------------- startup (lifespan)
max_retries == 3

\* a variant of backoff: the same wait after every failure
ConstantWait(count) == 2

\* the seconds of asyncio.sleep(2 ** retry_count)
backoff(count) == 2 ^ count

Event(event, seconds) == [event |-> event, seconds |-> seconds]

\* the process before lifespan runs: no ping made, ai_analyzer is None
StartupInit ==
  /\ GatewayStart
  /\ last = [op |-> "none"]
  /\ pc = "connect"
  /\ retry_count = 0
  /\ startup_log = <<>>
  /\ enhanced_engine = "None"
  /\ sentence_model = FALSE
  /\ sentence_model_name = "None"
  /\ clustering_model = FALSE
  /\ assignment_data = <<>>
  /\ sample_data = <<>>
  /\ text_embeddings_cache = {}
  /\ embeddings = Stored(<<>>, {}, "None")

\* one pass of the while loop up to its break or its sleep: `SELECT 1` succeeds and the
\* loop is left, or it raises, retry_count is incremented and the loop is left when
\* retry_count >= max_retries
lifespan_connect ==
  /\ pc = "connect"
  /\ retry_count < max_retries
  /\ \E connected \in BOOLEAN :
       IF connected
       THEN /\ pc' = "analyzer"
            /\ retry_count' = retry_count
            /\ startup_log' = Append(startup_log, Event("connected", 0))
       ELSE /\ retry_count' = retry_count + 1
            /\ pc' = IF retry_count + 1 >= max_retries THEN "analyzer" ELSE "sleep"
            /\ startup_log' = Append(startup_log, Event("failed", 0))
  /\ UNCHANGED engine_vars
  /\ UNCHANGED last
  /\ UNCHANGED gateway_vars

\* await asyncio.sleep(2 ** retry_count) is over: the loop goes round
lifespan_sleep ==
  /\ pc = "sleep"
  /\ pc' = "connect"
  /\ startup_log' = Append(startup_log, Event("sleep", backoff(retry_count)))
  /\ UNCHANGED retry_count
  /\ UNCHANGED engine_vars
  /\ UNCHANGED last
  /\ UNCHANGED gateway_vars

\* ai_analyzer = AIQueryAnalyzer(), then yield: the engine's constructor raised, or it built
\* an engine as in Init
lifespan_init_analyzer ==
  /\ pc = "analyzer"
  /\ pc' = "serving"
  /\ \/ /\ enhanced_engine' = "None"
        /\ sentence_model' = FALSE
        /\ sentence_model_name' = "None"
        /\ clustering_model' = FALSE
        /\ assignment_data' = <<>>
        /\ sample_data' = <<>>
        /\ text_embeddings_cache' = {}
        /\ embeddings' = Stored(<<>>, {}, "None")
     \/ /\ enhanced_engine' = "EnhancedAIAnalysisEngine"
        /\ sentence_model' \in BOOLEAN
        /\ sentence_model_name' \in LoadedNames("None", sentence_model')
        /\ clustering_model' = sentence_model'
        /\ \/ /\ assignment_data' \in AssignmentDatasets
              /\ sample_data' = get_comprehensive_data(assignment_data')
           \/ /\ assignment_data' = <<>>
              /\ sample_data' \in GeneratedDatasets \cup {_get_fallback_sample_data}
        /\ text_embeddings_cache' = _precompute_embeddings(sample_data', sentence_model')
        /\ embeddings' = Stored(<<>>, _precompute_embeddings(sample_data', sentence_model'),
                                sentence_model_name')
  /\ UNCHANGED <<retry_count, startup_log>>
  /\ UNCHANGED last
  /\ UNCHANGED gateway_vars

\* the steps of the lifespan coroutine up to its yield
lifespan == lifespan_connect \/ lifespan_sleep \/ lifespan_init_analyzer

StartupNext ==
  \/ lifespan_connect
  \/ lifespan_sleep
  \/ lifespan_init_analyzer
  \/ analyze_query
  \/ Respond

\* the event loop runs the startup coroutine until it yields: a step of it that stays
\* possible is taken
StartupSpec == StartupInit /\ [][StartupNext]_vars /\ WF_vars(lifespan)

\* ----------------------------------------------------------- gateway actions
\* the AI query service next to the gateway: started without an engine, never called
GatewayInit ==
  /\ GatewayStart
  /\ StartupDone
  /\ last = [op |-> "none"]
  /\ enhanced_engine = "None"
  /\ sentence_model = FALSE
  /\ sentence_model_name = "None"
  /\ clustering_model = FALSE
  /\ assignment_data = <<>>
  /\ sample_data = <<>>
  /\ text_embeddings_cache = {}
  /\ embeddings = Stored(<<>>, {}, "None")

GatewayIdle == gw_last.op = "none"

\* the tokens a client can present: those login returned, the same payloads signed with
\* another key, a string that is no JWT, and tokens signed with the gateway's key whose
\* sub is missing or names no user
PresentedTokens ==
  issued
  \cup {Jwt(t.payload, "other key") : t \in issued}
  \cup {[kind |-> "malformed"],
        Jwt([exp |-> clock + ACCESS_TOKEN_EXPIRE_MINUTES], SECRET_KEY),
        Jwt([sub |-> "nobody", exp |-> clock + ACCESS_TOKEN_EXPIRE_MINUTES], SECRET_KEY)}

\* the record of a request that carried a token
Answered(op, method, token, at_exp, response) ==
  /\ gw_last' = [op |-> op, method |-> method, token |-> token, utcnow |-> clock,
                 at_exp |-> at_exp, response |-> response]
  /\ UNCHANGED <<clock, issued>>
  /\ UNCHANGED engine_vars
  /\ UNCHANGED last
  /\ UNCHANGED startup_vars

\* POST /auth/login
login ==
  /\ GatewayIdle
  /\ \E username \in Usernames, password \in Passwords :
       /\ gw_last' = [op |-> "login", username |-> username, password |-> password,
                      utcnow |-> clock, response |-> LoginResponse(username, password, clock)]
       /\ issued' = IF LoginResponse(username, password, clock).status = 200
                    THEN issued \cup {LoginResponse(username, password, clock).access_token}
                    ELSE issued
       /\ Cardinality(issued') <= MaxTokens
  /\ UNCHANGED clock
  /\ UNCHANGED engine_vars
  /\ UNCHANGED last
  /\ UNCHANGED startup_vars

\* GET /auth/me
get_current_user ==
  /\ GatewayIdle
  /\ \E token \in PresentedTokens, at_exp \in BOOLEAN :
       Answered("me", "GET", token, at_exp,
                IF verify_token(token, clock, at_exp).status = 200
                THEN [status |-> 200, user |-> verify_token(token, clock, at_exp).user, forwarded |-> <<>>]
                ELSE NotForwarded(verify_token(token, clock, at_exp)))

\* the proxy routes of the data, analytics and AI query services
proxy_service ==
  /\ GatewayIdle
  /\ \E token \in PresentedTokens, at_exp \in BOOLEAN, route \in ProxyRoutes, backend_ok \in BOOLEAN :
       Answered(route[1], route[2], token, at_exp,
                ProxyResponse(verify_token(token, clock, at_exp), route[1], route[2], backend_ok))

\* GET, POST, PUT and DELETE /api/admin/{path}
proxy_admin_service ==
  /\ GatewayIdle
  /\ \E token \in PresentedTokens, at_exp \in BOOLEAN, method \in AdminMethods, backend_ok \in BOOLEAN :
       Answered("admin", method, token, at_exp,
                AdminProxyResponse(verify_token(token, clock, at_exp), method, backend_ok))

\* time passes between two requests
TimePasses ==
  /\ GatewayIdle
  /\ clock + TickMinutes <= MaxClock
  /\ clock' = clock + TickMinutes
  /\ UNCHANGED <<issued, gw_last>>
  /\ UNCHANGED engine_vars
  /\ UNCHANGED last
  /\ UNCHANGED startup_vars

\* the client takes the response; the gateway waits for the next request
GatewayRespond ==
  /\ ~GatewayIdle
  /\ gw_last' = [op |-> "none"]
  /\ UNCHANGED <<clock, issued>>
  /\ UNCHANGED engine_vars
  /\ UNCHANGED last
  /\ UNCHANGED startup_vars

GatewayNext ==
  \/ login
  \/ get_current_user
  \/ proxy_service
  \/ proxy_admin_service
  \/ TimePasses
  \/ GatewayRespond

GatewaySpec == GatewayInit /\ [][GatewayNext]_vars


\* ======================================================================= claims
\* the last operation was a request to the analyzer or to one of its endpoints
Request == last.op \in {"analyzer", "analyze", "advanced"}

EndpointRequest == last.op \in {"analyze", "advanced"}

\* a query that is empty or made of white space only
WhitespaceOnly(q) == \A i \in 1..Len(q) : q[i] = " "

NonEmptyRequest == Request /\ ~WhitespaceOnly(last.query)

\* the engine's analyze_query ran to its end in the last request
EngineCompleted == Request /\ last.called /\ ~last.outcome.raised

\* the engine's analyze_query raised in the last request
EngineRaised == Request /\ last.called /\ last.outcome.raised

\* the fixed fallback result
IsFallback(result) ==
  /\ Len(result.root_causes) = 1
  /\ result.root_causes[1].cause = <<"System Analysis Required">>
  /\ Len(result.recommendations) = 1
  /\ result.recommendations[1].title = "System Maintenance"

\* the pipeline stages ran on a working set and the Causal Mapper completed
MapperCompleted == last.op = "pipeline" /\ ~last.rca.raised

EightCategories == Range(Categories)

Titles(recommendations) == [i \in 1..Len(recommendations) |-> recommendations[i].title]

NoRepeat(s) == \A i, j \in 1..Len(s) : i # j => s[i] # s[j]

\* every table of the assignment dataset has zero rows
EmptyRecordTable ==
  /\ DOMAIN assignment_data = WorkingSetKeys
  /\ \A k \in WorkingSetKeys : assignment_data[k] = <<>>

\* C1: for every non-empty query a request to the analyzer or to one of its two
\* endpoints ends with a result and never with a failed request; when the engine is
\* missing or raises, the result is the fixed fallback
C1_RequestNeverFails ==
  NonEmptyRequest =>
    /\ EndpointRequest => last.response.success
    /\ (~last.called \/ last.outcome.raised) => IsFallback(last.result)

\* C2: a request with an empty or whitespace-only query is rejected with 'Query cannot be
\* empty', the engine's analyze_query is not called and the engine state (models,
\* dataset, embedding cache) is left as it was
C2_BlankQueryRejected ==
  [][ (Idle /\ last'.op \in {"analyze", "advanced"} /\ WhitespaceOnly(last'.query)) =>
        /\ ~last'.called
        /\ ~last'.response.success
        /\ last'.response.error = "Query cannot be empty"
        /\ UNCHANGED engine_vars ]_vars

\* a whitespace-only query was rejected by an engine whose models are not loaded, the
\* state in which a call of analyze_query would have tried to load them
C2_Witness ==
  /\ EndpointRequest
  /\ last.query = <<" ">>
  /\ ~last.called
  /\ enhanced_engine # "None"
  /\ ~sentence_model

RECURSIVE FirstOccurrences(_, _)
FirstOccurrences(root_causes, seen_causes) ==
  IF root_causes = <<>> THEN <<>>
  ELSE IF Head(root_causes).cause \in seen_causes
       THEN FirstOccurrences(Tail(root_causes), seen_causes)
       ELSE <<Head(root_causes)>>
            \o FirstOccurrences(Tail(root_causes), seen_causes \cup {Head(root_causes).cause})

\* C4: the root_causes returned by _perform_detailed_rca hold no two entries with the same
\* cause text and are exactly the first occurrences of the collected causes, in order
C4_FirstOccurrencesKept ==
  MapperCompleted =>
    /\ NoRepeat([i \in 1..Len(last.rca.value) |-> last.rca.value[i].cause])
    /\ last.rca.value = FirstOccurrences(last.collected.value, {})

\* two collected entries share a cause and differ in evidence; one was dropped
C4_Witness ==
  /\ MapperCompleted
  /\ Len(last.rca.value) < Len(last.collected.value)
  /\ \E i, j \in 1..Len(last.collected.value) :
       /\ i < j
       /\ last.collected.value[i].cause = last.collected.value[j].cause
       /\ last.collected.value[i].evidence # last.collected.value[j].evidence

\* C5: the final recommendations hold no two entries with the same title
C5_NoRepeatedTitle ==
  MapperCompleted => NoRepeat(Titles(last.recommendations))


\* the engine's analyze_query was called on an empty Record Table
AnalyzedEmptyTable == Request /\ last.called /\ EmptyRecordTable

Causes(root_causes) == [i \in 1..Len(root_causes) |-> root_causes[i].cause]

GeneralTitles == Range(Titles(_generate_general_recommendations))

\* the titles emitted for the generic cause, then the general ones, in priority order
GenericAndGeneralTitles ==
  << "Conduct Comprehensive Operational Audit",
     "Implement Automated Workflow & Communication Tools",
     "Implement Predictive Analytics Dashboard",
     "Establish Continuous Improvement Program" >>

NotFromLlm(recommendations) ==
  SelectSeq(recommendations, LAMBDA r : r.category # "llm_generated_insight")

\* C6 as stated: with an empty Record Table the result has exactly one root cause, the
\* generic one, and a non-empty list of recommendations that are all general ones,
\* whether or not the embedding model is loaded
C6_OneCauseGeneralOnly ==
  AnalyzedEmptyTable =>
    /\ ~last.outcome.raised
    /\ Causes(last.result.root_causes) = << <<"Systemic Operational Inefficiencies">> >>
    /\ last.result.recommendations # <<>>
    /\ Range(Titles(last.result.recommendations)) \subseteq GeneralTitles

\* C6 amended: with an empty Record Table the engine returns, when the embedding model
\* is not loaded, the generic cause alone and the two catalog recommendations of that
\* cause followed by the two general ones; when the model is loaded, the generic cause
\* followed by the LLM insight, and the same four recommendations together with
\* LLM-generated ones
C6_GenericCauseAndItsCatalog ==
  AnalyzedEmptyTable =>
    /\ ~last.outcome.raised
    /\ Titles(NotFromLlm(last.result.recommendations)) = GenericAndGeneralTitles
    /\ IF last.model
       THEN /\ Causes(last.result.root_causes) =
                 << <<"Systemic Operational Inefficiencies">>, <<"LLM-Enhanced Root Cause Insight">> >>
            /\ NotFromLlm(last.result.recommendations) # last.result.recommendations
       ELSE /\ Causes(last.result.root_causes) = << <<"Systemic Operational Inefficiencies">> >>
            /\ NotFromLlm(last.result.recommendations) = last.result.recommendations

\* the engine analysed an empty Record Table with the model loaded: two root causes
C6_Witness ==
  /\ AnalyzedEmptyTable
  /\ last.model
  /\ ~last.outcome.raised
  /\ Len(last.result.root_causes) = 2

\* C7: the root_causes list is non-empty after every completed call of
\* _perform_detailed_rca, on a working set and inside analyze_query
C7_CausesNeverEmpty ==
  /\ MapperCompleted => last.rca.value # <<>>
  /\ EngineCompleted => last.result.root_causes # <<>>

\* the Pattern Miner found nothing, no model is loaded, and the generic cause was emitted
C7_Witness ==
  /\ MapperCompleted
  /\ last.patterns = <<>>
  /\ ~last.model
  /\ Causes(last.rca.value) = << <<"Systemic Operational Inefficiencies">> >>

\* C8: the analysis returned by POST /api/ai/analyze for a non-empty query carries the
\* analysis_type, confidence_score, interpreted_query, root_causes and recommendations of
\* the result the analyzer produced
C8_ResponseCarriesResult ==
  (last.op = "analyze" /\ ~WhitespaceOnly(last.query)) =>
    /\ last.response.success
    /\ last.response.analysis.analysis_type = last.result.analysis_type
    /\ last.response.analysis.confidence_score = last.result.confidence_score
    /\ last.response.analysis.interpreted_query = last.result.interpreted_query
    /\ last.response.analysis.root_causes = last.result.root_causes
    /\ last.response.analysis.recommendations = last.result.recommendations

\* C9: every Pattern of _analyze_patterns has percentage = 100 * frequency / rows of the
\* table it was mined from, and 0 < percentage <= 100
C9_PercentageOfOwnTable ==
  last.op = "pipeline" =>
    \A i \in 1..Len(last.patterns) :
      /\ Len(last.relevant_data[TableOf(last.patterns[i].type)]) > 0
      /\ RatEq(last.patterns[i].percentage,
               <<100 * last.patterns[i].frequency,
                 Len(last.relevant_data[TableOf(last.patterns[i].type)])>>)
      /\ last.patterns[i].percentage[2] > 0
      /\ last.patterns[i].percentage[1] > 0
      /\ last.patterns[i].percentage[1] <= 100 * last.patterns[i].percentage[2]

\* patterns were mined from two tables of different sizes
C9_Witness ==
  /\ last.op = "pipeline"
  /\ Len(last.relevant_data["orders"]) = 2
  /\ Len(last.relevant_data["external_factors"]) = 1
  /\ \E i, j \in 1..Len(last.patterns) :
       /\ TableOf(last.patterns[i].type) = "orders"
       /\ TableOf(last.patterns[j].type) = "external_factors"

\* C10: when no sentence model is loaded, analyze_query raises no exception and returns
\* semantic_patterns and clustering_patterns both empty
C10_NoModelNoException ==
  (Request /\ last.called /\ ~last.model) =>
    /\ ~last.outcome.raised
    /\ last.result.patterns_identified.semantic_patterns = <<>>
    /\ last.result.patterns_identified.clustering_patterns = <<>>

\* a direct call of the analyzer reached the engine
EngineCalled == last.op = "analyzer" /\ last.called

\* root_causes and recommendations of an engine outcome, or "raised"
CausesAndRecommendations(outcome) ==
  IF outcome.raised THEN <<"raised">>
  ELSE <<outcome.value.root_causes, outcome.value.recommendations>>

\* the outcome of calling the engine again, in the state the last call left, with the
\* query and the "now" of the last call; reinit is the outcome of the model load the
\* second call attempts when no model is loaded
SecondCall(reinit, high, labels) ==
  engine_analyze_query(last.query, last.now, sentence_model \/ reinit,
                       IF sentence_model THEN clustering_model ELSE reinit,
                       sample_data, assignment_data, high, labels)

SameAsFirst(reinit) ==
  \A high \in SUBSET CategoriesWithTexts(WorkingSet(last.query, last.now)),
     labels \in ClusterLabelings(ClusterTexts(WorkingSet(last.query, last.now))) :
    CausesAndRecommendations(SecondCall(reinit, high, labels)) = CausesAndRecommendations(last.outcome)

PipelineOn(relevant_data) == last.op = "pipeline" /\ last.relevant_data = relevant_data

\* C12: on a working set whose external_factors table has 50 rows, 8 of them "Rain",
\* the miner yields a weather_correlation Pattern of frequency 8 and percentage 16.0 and
\* the root causes returned contain one whose cause starts with "Weather Impact:"
C12_Scenario3 ==
  PipelineOn(Scenario3WorkingSet) =>
    /\ \E i \in 1..Len(last.patterns) :
         /\ last.patterns[i].type = "weather_correlation"
         /\ last.patterns[i].value = "Rain"
         /\ last.patterns[i].frequency = 8
         /\ Format1f(last.patterns[i].percentage) = 160
    /\ ~last.rca.raised
    /\ \E i \in 1..Len(last.rca.value) : last.rca.value[i].cause[1] = "Weather Impact: "

\* C13: on a working set of 100 orders of Los Angeles, CA, 20 of them failed with
\* "Address not found", the root causes returned contain exactly one whose cause is the
\* Address-not-found mapping, and its evidence holds "20.0%"
C13_Scenario1 ==
  PipelineOn(Scenario1WorkingSet) =>
    /\ ~last.rca.raised
    /\ Cardinality({i \in 1..Len(last.rca.value) :
                      last.rca.value[i].cause = <<"Inaccurate Address Data & Lack of Geo-Validation">>}) = 1
    /\ \E i \in 1..Len(last.rca.value) :
         /\ last.rca.value[i].cause = <<"Inaccurate Address Data & Lack of Geo-Validation">>
         /\ last.rca.value[i].evidence[2] = 200

\* no entry of lower rank before one of higher rank
RankDescending(recommendations) ==
  \A i, j \in 1..Len(recommendations) :
    i < j => priority_scores(recommendations[i].priority) >= priority_scores(recommendations[j].priority)

OfRank(recommendations, rank) ==
  SelectSeq(recommendations, LAMBDA r : priority_scores(r.priority) = rank)

\* sorted is accumulated ordered by rank descending, entries of equal rank in their
\* accumulated order
StablySorted(accumulated, sorted) ==
  /\ RankDescending(sorted)
  /\ Len(sorted) = Len(accumulated)
  /\ \A rank \in 0..3 : OfRank(sorted, rank) = OfRank(accumulated, rank)

\* C14: the final recommendations are ordered by priority rank descending (high = 3,
\* medium = 2, low = 1) and recommendations of equal rank keep the order in which they
\* were accumulated
C14_StableByPriority ==
  /\ MapperCompleted =>
        StablySorted(Accumulated(last.rca.value, last.relevant_data, last.model),
                     last.recommendations)
  /\ EngineCompleted =>
        StablySorted(Accumulated(last.result.root_causes, WorkingSet(last.query, last.now), last.model),
                     last.result.recommendations)

\* the sort moved a high entry over medium ones and kept two medium entries in order
C14_Witness ==
  /\ MapperCompleted
  /\ Accumulated(last.rca.value, last.relevant_data, last.model) # last.recommendations
  /\ Len(OfRank(last.recommendations, 2)) >= 2
  /\ Len(OfRank(last.recommendations, 3)) >= 2
  /\ Len(OfRank(last.recommendations, 1)) >= 1

\* C15: POST /auth/login answers 200 with an access token exactly when the username is a
\* known user and the password is that user's password; any other pair is answered 401,
\* carries no token, and adds no token to those issued.
C15_LoginIffCredentials ==
  [][gw_last'.op = "login" /\ gw_last.op = "none" =>
       IF /\ gw_last'.username \in DOMAIN USERS
          /\ USERS[gw_last'.username].password = gw_last'.password
       THEN /\ gw_last'.response.status = 200
            /\ "access_token" \in DOMAIN gw_last'.response
            /\ gw_last'.response.access_token \in issued'
            /\ gw_last'.response.access_token.payload.sub = gw_last'.username
       ELSE /\ gw_last'.response.status = 401
            /\ "access_token" \notin DOMAIN gw_last'.response
            /\ issued' = issued]_vars

\* a known user with a wrong password was answered 401 after another login had succeeded
C15_Witness ==
  /\ gw_last.op = "login"
  /\ gw_last.username \in DOMAIN USERS
  /\ gw_last.password # USERS[gw_last.username].password
  /\ gw_last.response.status = 401
  /\ issued # {}

\* the requests that passed through verify_token
TokenChecked == gw_last.op # "none" /\ gw_last.op # "login"

\* the token is no JWT, is signed with another key, is at or past its expiry, or names no
\* known user
BadToken(token, utcnow) ==
  \/ token.kind # "jwt"
  \/ token.key # SECRET_KEY
  \/ token.payload.exp <= utcnow
  \/ "sub" \notin DOMAIN token.payload
  \/ token.payload.sub \notin DOMAIN USERS

AdminRequest == gw_last.op = "admin" /\ gw_last.method \in AdminMethods

\* the role of the user a token names, "" when it names none
RoleOf(token) ==
  IF token.kind = "jwt" /\ "sub" \in DOMAIN token.payload /\ token.payload.sub \in DOMAIN USERS
  THEN USERS[token.payload.sub].role
  ELSE ""

\* C17: on /api/admin/{path}, for GET, POST, PUT and DELETE, an authenticated user whose role
\* is not admin is answered 403 and the request is not forwarded to the admin service; a
\* request is forwarded only for a user whose role is admin, and an authenticated admin's
\* request is forwarded with its method.
C17_AdminOnly ==
  AdminRequest =>
    /\ gw_last.response.status # 401 /\ RoleOf(gw_last.token) # "admin" =>
          /\ gw_last.response.status = 403
          /\ gw_last.response.forwarded = <<>>
    /\ gw_last.response.forwarded # <<>> => RoleOf(gw_last.token) = "admin"
    /\ gw_last.response.status # 401 /\ RoleOf(gw_last.token) = "admin" =>
          gw_last.response.forwarded = <<"admin", gw_last.method>>

\* a data analyst's DELETE on an admin route was answered 403 while an admin token exists
C17_Witness ==
  /\ gw_last.op = "admin"
  /\ gw_last.method = "DELETE"
  /\ RoleOf(gw_last.token) = "data_analyst"
  /\ gw_last.response.status = 403
  /\ \E token \in issued : RoleOf(token) = "admin"

\* the engine was constructed although the loader's data is the empty dict: a CSV file was
\* missing or unreadable, or the loader raised
LoadFailed == enhanced_engine = "EnhancedAIAnalysisEngine" /\ DOMAIN assignment_data = {}

\* the tables of the dataset the engine holds
TablesOf(data) ==
  {data[k] : k \in DOMAIN data \cap {"orders", "fleet", "warehouse", "customer_feedback", "contextual_data"}}

\* C18: when loading the dataset failed at startup, engine construction completes and every
\* table of the dataset it then holds, and of every working set the pipeline draws from it,
\* has zero rows.
C18_LoadFailureEmptyTable ==
  LoadFailed =>
    /\ \A table \in TablesOf(sample_data) : Len(table) = 0
    /\ \A now \in Nows : \A table \in TablesOf(WorkingSet(<<>>, now)) : Len(table) = 0

\* C19: no analyze call, whatever its query, changes the rows or columns of the dataset
\* loaded at startup: engine.sample_data and the loader's data stay as construction left
\* them.
C19_RecordTableReadOnly ==
  [][sample_data' = sample_data /\ assignment_data' = assignment_data]_vars

\* the engine served a query whose location or time-period entities left fewer orders in
\* the working set than the dataset holds
C19_Witness ==
  /\ EngineCalled
  /\ DOMAIN assignment_data = {}
  /\ "orders" \in DOMAIN sample_data
  /\ Len(WorkingSet(last.query, last.now)["orders"]) < Len(sample_data["orders"])

Matches(category, q) ==
  Cardinality({k \in 1..Len(analysis_patterns(category)) : Search(analysis_patterns(category)[k], q)})

\* a / b = c / d for quotients given as pairs
SameQuotient(r, a, b) == r[1] * b = a * r[2]

IntentDone == last.op = "intent"

\* C21: the confidence of a category is the number of its patterns matching the lower-cased
\* query over the number of its patterns; the returned category has maximum confidence and
\* every category before it in enumeration order has strictly less; when nothing matches,
\* failure_analysis is returned with confidence 0.
C21_FirstMaximum ==
  IntentDone =>
    LET q == Lowered(last.query)
        r == last.result
        k == CHOOSE k \in 1..Len(Categories) : Categories[k] = r.analysis_type
    IN  /\ \A c \in Range(Categories) :
             SameQuotient(r.confidence_scores[c], Matches(c, q), Len(analysis_patterns(c)))
        /\ r.confidence_score = r.confidence_scores[r.analysis_type]
        /\ \A j \in 1..Len(Categories) :
             Matches(Categories[j], q) * Len(analysis_patterns(r.analysis_type))
               <= Matches(r.analysis_type, q) * Len(analysis_patterns(Categories[j]))
        /\ \A j \in 1..(k - 1) :
             Matches(Categories[j], q) * Len(analysis_patterns(r.analysis_type))
               < Matches(r.analysis_type, q) * Len(analysis_patterns(Categories[j]))
        /\ (\A c \in Range(Categories) : Matches(c, q) = 0) =>
             r.analysis_type = "failure_analysis" /\ r.confidence_score[1] = 0

\* performance and predictive tie at one pattern of nine, named in the query in the other
\* order; performance, the earlier category, is returned
C21_Witness ==
  /\ IntentDone
  /\ last.query = <<"predict", "delay">>
  /\ Matches("performance_analysis", Lowered(last.query)) = 1
  /\ Matches("predictive_analysis", Lowered(last.query)) = 1
  /\ last.result.analysis_type = "performance_analysis"

\* C22: for every query each entity list of the result (locations, time_periods, clients,
\* warehouses, failure_reasons, statuses) holds no string twice.
C22_NoDuplicateEntity ==
  IntentDone =>
    \A key \in {"locations", "time_periods", "clients", "warehouses", "failure_reasons", "statuses"} :
      NoRepeat(last.result.entities[key])

\* the loader filtered its tables for an entity set
Filtered == last.op = "filtered"

\* C23: the Data Selector never raises: for every entity set and every table, a filter whose
\* column is missing from the table is not applied and the table is still returned.
C23_SelectorNeverRaises ==
  Filtered =>
    /\ ~last.result.raised
    /\ \A t \in DOMAIN assignment_data \cap FilteredTables :
         Columns(assignment_data[t]) = {} => last.result.value[t] = assignment_data[t]

\* C24: when the assignment dataset is loaded, the working set of every query holds, for
\* each of the eight tables, exactly the rows the loader loaded for that table.
C24_FullComprehensiveDataset ==
  EngineCalled /\ DOMAIN assignment_data # {} =>
    \A k \in WorkingSetKeys : WorkingSet(last.query, last.now)[k] = assignment_data[k]

\* the number of entries of a recommendations list with a title
TitleCount(recommendations, title) ==
  Cardinality({i \in 1..Len(recommendations) : recommendations[i].title = title})

BothGeneralOnce(recommendations) ==
  /\ recommendations # <<>>
  /\ TitleCount(recommendations, "Implement Predictive Analytics Dashboard") = 1
  /\ TitleCount(recommendations, "Establish Continuous Improvement Program") = 1

\* C25: for every list of root causes the final recommendations list is non-empty and holds
\* each of the two general titles, 'Implement Predictive Analytics Dashboard' and 'Establish
\* Continuous Improvement Program', exactly once.
C25_GeneralRecommendationsOnce ==
  /\ MapperCompleted => BothGeneralOnce(last.recommendations)
  /\ EngineCompleted => BothGeneralOnce(last.outcome.value.recommendations)

\* the two general recommendations follow catalog and LLM recommendations of a repeated cause
C25_Witness ==
  /\ MapperCompleted
  /\ last.model
  /\ TitleCount(last.recommendations, "Implement Advanced Address Validation System") > 1
  /\ \E i \in 1..Len(last.recommendations) : last.recommendations[i].category = "llm_generated_insight"
  /\ BothGeneralOnce(last.recommendations)

RECURSIVE PlainSum(_)
PlainSum(numbers) == IF numbers = <<>> THEN 0 ELSE Head(numbers) + PlainSum(Tail(numbers))

\* what one recommendation adds to estimated_annual_savings
SavingsOf(priority) ==
  CASE priority = "high" -> 50000
    [] priority = "medium" -> 25000
    [] OTHER -> 0

\* what one root cause adds to the k-th current_impact field
ImpactOf(root_cause, k) ==
  IF root_cause.business_impact = <<>> THEN 0 ELSE root_cause.business_impact[k]

ImpactMatches(impact_analysis, root_causes, recommendations) ==
  /\ impact_analysis.estimated_annual_savings =
       PlainSum([i \in 1..Len(recommendations) |-> SavingsOf(recommendations[i].priority)])
  /\ \A k \in 1..3 :
       impact_analysis.current_impact[k] =
         PlainSum([i \in 1..Len(root_causes) |-> ImpactOf(root_causes[i], k)])

\* a request that was answered with a QueryAnalysisResult
HasResult == Request /\ "result" \in DOMAIN last

\* C26 as stated: for every result, estimated_annual_savings is 50000 per high-priority
\* and 25000 per medium-priority recommendation of the final list (low contributing 0),
\* and each current_impact field is the plain sum of that business_impact field over the
\* returned root causes, a root cause without business_impact contributing 0.
C26_ImpactOfEveryResult ==
  HasResult =>
    ImpactMatches(last.result.impact_analysis, last.result.root_causes, last.result.recommendations)

\* C26 amended: the same equalities for every result the engine's pipeline computes; the
\* fixed fallback result of the analyzer is set apart
C26_ImpactOfEngineResult ==
  /\ EngineCompleted =>
       ImpactMatches(last.outcome.value.impact_analysis, last.outcome.value.root_causes,
                     last.outcome.value.recommendations)
  /\ MapperCompleted =>
       ImpactMatches(last.impact_analysis, last.rca.value, last.recommendations)

\* an impact summary over root causes with and without business_impact and over
\* recommendations of the three priorities
C26_Witness ==
  /\ MapperCompleted
  /\ \E i, j \in 1..Len(last.rca.value) :
       /\ last.rca.value[i].business_impact = <<>>
       /\ last.rca.value[j].business_impact # <<>>
  /\ \A priority \in {"high", "medium", "low"} : CountPriority(last.recommendations, priority) > 0
  /\ last.impact_analysis.estimated_annual_savings > 0
  /\ last.impact_analysis.current_impact[1] > 0

\* the (table, column) pairs the miner is configured with, the N of each and the wording
\* of its patterns
MinedColumns ==
  { [table |-> "orders", col |-> "failure_reason", tmpl |-> "appears in"],
    [table |-> "orders", col |-> "city", tmpl |-> "Most deliveries to"],
    [table |-> "orders", col |-> "status", tmpl |-> "status in"],
    [table |-> "external_factors", col |-> "weather_condition", tmpl |-> "weather conditions in"],
    [table |-> "external_factors", col |-> "traffic_condition", tmpl |-> "traffic conditions in"],
    [table |-> "fleet_logs", col |-> "gps_delay_notes", tmpl |-> "causes"] }

TopN(col) == IF col \in {"weather_condition", "traffic_condition"} THEN 3 ELSE 5

\* the values of the patterns mined from one column, in the order emitted
MinedValues(patterns, tmpl) ==
  LET mined == SelectSeq(patterns, LAMBDA p : p.tmpl = tmpl)
  IN  [i \in 1..Len(mined) |-> mined[i].value]

\* the non-null, non-blank values of a column
NonBlankValues(vals) == {vals[i] : i \in {j \in 1..Len(vals) : vals[j] # NA /\ strip(vals[j]) # ""}}

Min(a, b) == IF a < b THEN a ELSE b

\* values are n most frequent non-null, non-blank values of vals, each once
MostFrequent(values, vals, n) ==
  /\ NoRepeat(values)
  /\ Range(values) \subseteq NonBlankValues(vals)
  /\ Len(values) = Min(n, Cardinality(NonBlankValues(vals)))
  /\ \A v \in Range(values) : \A w \in NonBlankValues(vals) \ Range(values) :
       CountOf(vals, v) >= CountOf(vals, w)

\* C27: for each configured (table, column) pair the miner emits at most N patterns, one
\* per value, whose values are exactly the N most frequent non-null, non-blank values of
\* the column (all of them when fewer than N exist); a blank or null value never takes one
\* of the N places and never appears as a pattern.
C27_TopNNonBlank ==
  last.op = "pipeline" =>
    \A m \in MinedColumns :
      MostFrequent(MinedValues(last.patterns, m.tmpl),
                   Column(Get(last.relevant_data, m.table), m.col), TopN(m.col))

\* the ping attempts among the first i entries of the startup log, and the failed ones
AttemptsUpTo(i) == {j \in 1..i : startup_log[j].event \in {"connected", "failed"}}

FailuresUpTo(i) == Cardinality({j \in 1..i : startup_log[j].event = "failed"})

\* the ping loop as far as it has run: at most 3 attempts, none after a success, a wait of
\* 2 ** (failures so far) seconds after a failure that is not the third and nowhere else,
\* and the analyzer is built, and requests are served, only once the loop is over
RetryLoop ==
  /\ Cardinality(AttemptsUpTo(Len(startup_log))) <= 3
  /\ \A i \in 1..Len(startup_log) :
       /\ startup_log[i].event = "connected" => i = Len(startup_log)
       /\ startup_log[i].event = "failed" =>
            IF FailuresUpTo(i) = 3 THEN i = Len(startup_log)
            ELSE i < Len(startup_log) => startup_log[i + 1].event = "sleep"
       /\ startup_log[i].event = "sleep" =>
            /\ i > 1
            /\ startup_log[i - 1].event = "failed"
            /\ startup_log[i].seconds = 2 ^ FailuresUpTo(i)
            /\ i < Len(startup_log) => startup_log[i + 1].event # "sleep"
  /\ pc \in {"analyzer", "serving"} =>
       /\ startup_log # <<>>
       /\ \/ startup_log[Len(startup_log)].event = "connected"
          \/ FailuresUpTo(Len(startup_log)) = 3
  /\ last.op # "none" => pc = "serving"

\* C28: the database ping of startup is attempted at most 3 times and stops at the first
\* success, a wait (exponential backoff) is made only between a failed attempt and the
\* next attempt, and in every case, success or three failures, startup ends: the
\* analyzer is initialised and the service waits for requests.
C28_StartupRetryTerminates == []RetryLoop /\ <>Idle

\* three failed pings, waits of 2 and 4 seconds between them, and a request served
C28_Witness ==
  /\ pc = "serving"
  /\ Len(startup_log) = 5
  /\ FailuresUpTo(5) = 3
  /\ startup_log[2] = Event("sleep", 2)
  /\ startup_log[4] = Event("sleep", 4)
  /\ last.op = "analyze"

\* C29: in every order of analyze calls the embedding cache is append-only, a key once
\* present is never removed, and the vector stored for a key never changes to a different
\* value.
C29_CacheAppendOnly ==
  [][ /\ text_embeddings_cache \subseteq text_embeddings_cache'
      /\ \A k \in DOMAIN embeddings :
           /\ k \in DOMAIN embeddings'
           /\ embeddings'[k] = embeddings[k] ]_vars

\* a request that ran with a model loaded by an earlier call or at construction, its
\* target texts in the cache with the vectors of that model
C29_Witness ==
  /\ EngineCompleted
  /\ ~last.retried
  /\ last.model
  /\ DOMAIN embeddings # {}
  /\ DOMAIN embeddings = text_embeddings_cache
  /\ \A k \in DOMAIN embeddings : embeddings[k] = encode(sentence_model_name, k)

\* the first catalog entry of the trigger that matches a failure reason of the fixed table
CatalogTitleOf(failure_reason) ==
  CASE failure_reason = "Address not found" -> "Implement Advanced Address Validation System"
    [] failure_reason = "Customer not available" ->
         "Optimize Customer Communication & Flexi-Delivery Options"
    [] failure_reason = "Weather delay" -> "Implement Weather-Aware Dynamic Route Optimization"

FixedReasons == {"Address not found", "Customer not available", "Weather delay"}

\* C30: for a failure pattern whose reason is 'Address not found', 'Customer not available'
\* or 'Weather delay', the Causal Mapper produces a RootCause and the Recommendation
\* Synthesizer emits for it the catalog entries of the matching trigger (address
\* validation, customer communication, weather-aware routing).
C30_MapperToCatalog ==
  last.op = "pipeline" =>
    \A i \in 1..Len(last.patterns) :
      (last.patterns[i].type = "failure_pattern" /\ last.patterns[i].value \in FixedReasons) =>
        /\ ~last.rca.raised
        /\ \E j \in 1..Len(last.recommendations) :
             last.recommendations[j].title = CatalogTitleOf(last.patterns[i].value)

====
